---- MODULE Spec2Model ----
(***************************************************************************)
(* beastprint-sdk: the print() dispatcher (strategy resolution and the     *)
(* auto fallback chain), its three backend adapters (beastPrint,           *)
(* printdeskPrint, legacyPrint), the template renderer and the process-wide *)
(* debug configuration.                                                    *)
(*                                                                         *)
(* The model follows the TypeScript source bundled in src/dist/index.cjs   *)
(* (lines 166-1037).  A print call is a coroutine: it runs synchronously   *)
(* up to a network call (fetch), is suspended there, and is resumed by the *)
(* response.  One action of the model is one such run: everything the      *)
(* code does between two suspension points, the finally block included.    *)
(* Awaits of promises that are already settled are not suspension points   *)
(* of the model: the code on both sides runs in the same action.           *)
(***************************************************************************)
EXTENDS Naturals, Sequences, FiniteSets

VARIABLES debugConfig, call

vars == <<debugConfig, call>>

(***************************************************************************)
(* JavaScript values.  Every option value is a string; Undef stands for    *)
(* undefined.  Truthy is JavaScript's truthiness of a string-or-undefined. *)
(***************************************************************************)
Undef == "undefined"

Truthy(v) == v # Undef /\ v # ""

IsNullish(v) == v = Undef

(***************************************************************************)
(* The requests (PrintOptions) the model draws from.  An absent nested     *)
(* object is a record with present = FALSE.                                *)
(***************************************************************************)
StrategyValues == {Undef, "legacy", "beast", "printdesk"}

DebugValues == {Undef, "true", "false"}

OptStr(v) == {Undef, v}

NoLegacy == [present |-> FALSE, html |-> Undef, url |-> Undef, popup |-> Undef]

LegacyValues ==
    {NoLegacy} \cup
    [present : {TRUE}, html : OptStr("legacy.html"), url : OptStr("legacy.url"),
     popup : {Undef}]

NoBeast ==
    [present |-> FALSE, printerKey |-> Undef, mode |-> Undef, templateId |-> Undef,
     widthMm |-> Undef, data |-> Undef, html |-> Undef, url |-> Undef]

BeastValues ==
    {NoBeast} \cup
    [present : {TRUE}, printerKey : {Undef, "", "printer-key"},
     mode : {Undef, "html", "pdf"}, templateId : OptStr("template-1"),
     widthMm : {Undef}, data : {Undef},
     html : OptStr("beast.html"), url : OptStr("beast.url")]

(* A caller's pdfOptions object: the top-level keys it sets (Undef: not set). *)
NoPdfOptions ==
    [present |-> FALSE, margins |-> Undef, pageSize |-> Undef, color |-> Undef,
     copies |-> Undef, scaleFactor |-> Undef, landscape |-> Undef, dpi |-> Undef]

NoPrintdesk ==
    [present |-> FALSE, html |-> Undef, url |-> Undef, localUrl |-> Undef,
     pdfOptions |-> NoPdfOptions, printerName |-> Undef]

PrintdeskValues ==
    {NoPrintdesk} \cup
    [present : {TRUE}, html : OptStr("printdesk.html"), url : OptStr("printdesk.url"),
     localUrl : {Undef}, pdfOptions : {NoPdfOptions}, printerName : {Undef}]

(* How many of the nine content fields (html, url, templateId) a request sets. *)
One(v) == IF v = Undef THEN 0 ELSE 1

ContentFields(o) ==
    One(o.html) + One(o.url) + One(o.legacy.html) + One(o.legacy.url)
    + One(o.beast.html) + One(o.beast.url) + One(o.beast.templateId)
    + One(o.printdesk.html) + One(o.printdesk.url)

MaxContentFields == 2

PrintOptions ==
    {o \in [strategy : StrategyValues, legacy : LegacyValues, beast : BeastValues,
            printdesk : PrintdeskValues, html : OptStr("shared.html"),
            url : OptStr("shared.url"), debug : DebugValues,
            fallbackToLegacyOnError : OptStr("true")] :
        ContentFields(o) <= MaxContentFields}

NoOptions ==
    [strategy |-> Undef, legacy |-> NoLegacy, beast |-> NoBeast,
     printdesk |-> NoPrintdesk, html |-> Undef, url |-> Undef, debug |-> Undef,
     fallbackToLegacyOnError |-> Undef]

(***************************************************************************)
(* Error values: the messages of the Error objects the code throws.        *)
(***************************************************************************)
ErrNoUsableConfig == "auto strategy: no usable configuration for beast, printdesk, or legacy"

ErrNoBeastOptions == "No BeastPrint options provided"

ErrPrinterKey == "printer.key is required for BeastPrint"

ErrTemplateId == "templateId is required when mode=template"

ErrBeastHtmlOrUrl == "html or url is required when mode=html"

ErrUnsupportedMode == "Unsupported mode"

ErrBeastFetchUrl == "Failed to fetch HTML from url"

ErrBeastHttp == "BeastPrint error"

ErrNoPrintdeskOptions == "No Printdesk options provided"

ErrPrintdeskFetchUrl == "Printdesk: failed to fetch HTML from url"

ErrPrintdeskHtmlOrUrl == "Printdesk: html or url is required"

ErrLocalPrintdesk == "Local Printdesk error"

ErrRender == "renderTemplateToHtml error"

ErrFetchRejected == "fetch rejected"

ErrWindowPrint == "window.print() is not available"

ErrNonBrowser == "Cannot open window/iframe in non-browser environment"

ErrPopupBlocked == "Popup blocked or failed to open window"

ErrNoDocument == "Cannot create iframe in non-browser environment"

ErrContentWindow == "Failed to access iframe.contentWindow"

ConfigurationErrors ==
    {ErrNoBeastOptions, ErrPrinterKey, ErrTemplateId, ErrBeastHtmlOrUrl,
     ErrUnsupportedMode, ErrNoPrintdeskOptions, ErrPrintdeskHtmlOrUrl}

(***************************************************************************)
(* The endpoints of the network calls.                                     *)
(***************************************************************************)
BeastPrintUrl == "https://print.beastscan.com/print"

BeastRenderUrl == "https://print.beastscan.com/render/html"

DefaultLocalUrl == "http://127.0.0.1:43594/print"

(***************************************************************************)
(* What the environment answers to a fetch: a 2xx response with a body, a  *)
(* 2xx response with an empty body, a non-2xx response, or a rejection of  *)
(* the fetch promise itself.                                               *)
(***************************************************************************)
Responses == {"ok", "empty", "non2xx", "rejected"}

ResponseOk(resp) == resp \in {"ok", "empty"}

ResponseText(resp, body) == IF resp = "ok" THEN body ELSE ""

RenderedHtml == "rendered template html"

FetchedHtml == "html fetched from url"

(***************************************************************************)
(* The browser environment legacyPrint runs in: whether window and document *)
(* exist, whether window.print is a function, whether window.open returns  *)
(* a window, whether a new iframe has a contentWindow, and whether the url  *)
(* is same-origin with the page.                                           *)
(***************************************************************************)
Envs ==
    {e \in [window : BOOLEAN, document : BOOLEAN, print : BOOLEAN, open : BOOLEAN,
            contentWindow : BOOLEAN, sameOrigin : BOOLEAN] :
        /\ e.document = e.window
        /\ ~e.window => ~e.print /\ ~e.open /\ ~e.contentWindow /\ ~e.sameOrigin}

(***************************************************************************)
(* The frame of one print call: its argument, its locals, where it is      *)
(* suspended (pc), the error it rejected with, and two histories: trace,   *)
(* the calls, returns, throws and console warnings in order, and net, the  *)
(* fetch requests issued in order.  options is the caller's request object *)
(* as it is now, given is its value when print was called.                 *)
(*   pc: "idle"            no call in this slot                            *)
(*       "render"          suspended in renderTemplateToHtml's fetch       *)
(*       "beast_fetch"     suspended in beastPrint's fetch of options.url  *)
(*       "beast_post"      suspended in beastPrint's POST                  *)
(*       "printdesk_fetch" suspended in printdeskPrint's fetch of the url  *)
(*       "printdesk_post"  suspended in printdeskPrint's POST              *)
(*       "legacyPrint"     at `return legacyPrint(legacyOpts)`: never the  *)
(*                         pc of a state, legacyPrint runs in the same run *)
(*       "resolved", "rejected"   the promise print returned has settled   *)
(***************************************************************************)
(* The frame also keeps what legacyPrint left in the page: legacyPath, the
   branch it took; onload, the state of the load callback it registered
   ("none", "pending", or how the callback ended); teardown, whether the
   removal of the iframe or the closing of the popup is "scheduled" or "done";
   and, for a direct call of legacyPrint, env, the environment it ran in. *)
NoEnv ==
    [window |-> FALSE, document |-> FALSE, print |-> FALSE, open |-> FALSE,
     contentWindow |-> FALSE, sameOrigin |-> FALSE]

(* The slots a call can occupy, and the one slot used when calls are made one
   at a time (each started after the previous one has settled). *)
Slots == {1, 2}

OneAtATime == {1}

Settled == {"resolved", "rejected"}

Suspended(L) == L.pc \notin Settled \cup {"idle"}

IdleFrame ==
    [pc |-> "idle", options |-> NoOptions, given |-> NoOptions, strategy |-> Undef,
     fallbackToLegacy |-> FALSE, prevDebugConfig |-> [enabled |-> FALSE],
     legacyOpts |-> NoLegacy, beastOpts |-> NoBeast, printdeskOpts |-> NoPrintdesk,
     renderedTemplateHtml |-> Undef, renderFor |-> Undef, html |-> Undef,
     error |-> Undef, legacyPath |-> Undef, onload |-> "none", teardown |-> "none",
     env |-> NoEnv,
     trace |-> <<>>, net |-> <<>>]

Emit(L, kind, who, detail) == [L EXCEPT !.trace = Append(@, <<kind, who, detail>>)]

Request(endpoint, method, mode, templateId, content) ==
    [endpoint |-> endpoint, method |-> method, mode |-> mode,
     templateId |-> templateId, content |-> content,
     widthMm |-> Undef, data |-> Undef, printerKey |-> Undef,
     envelope |-> Undef, pdfOptions |-> NoPdfOptions, printerName |-> Undef]

(* `widthMm: options.widthMm ?? 80` and `data: options.data ?? {}`. *)
DefaultWidthMm == "80"

WidthMm(options) == IF IsNullish(options.widthMm) THEN DefaultWidthMm ELSE options.widthMm

EmptyData == "{}"

Data(options) == IF IsNullish(options.data) THEN EmptyData ELSE options.data

Fetch(L, req, pc) == [L EXCEPT !.net = Append(@, req), !.pc = pc]

Resolve(L) == [L EXCEPT !.pc = "resolved"]

Reject(L, err) == [L EXCEPT !.pc = "rejected", !.error = err]

(***************************************************************************)
(* legacyPrint: synchronous.  The result names the render path taken.      *)
(***************************************************************************)
LegacyResult(ok, error, path) == [ok |-> ok, error |-> error, path |-> path]

LegacyPrint(options, env) ==
    IF ~options.present \/ (~Truthy(options.html) /\ ~Truthy(options.url))
    THEN IF env.window /\ env.print
         THEN LegacyResult(TRUE, Undef, "window.print")
         ELSE LegacyResult(FALSE, ErrWindowPrint, "window.print")
    ELSE IF Truthy(options.url)
    THEN IF ~env.window \/ ~env.document
         THEN LegacyResult(FALSE, ErrNonBrowser, "url")
         ELSE IF Truthy(options.popup)
         THEN IF env.open
              THEN LegacyResult(TRUE, Undef, "url popup")
              ELSE LegacyResult(FALSE, ErrPopupBlocked, "url popup")
         ELSE IF ~env.sameOrigin
         THEN IF env.open
              THEN LegacyResult(TRUE, Undef, "url new tab")
              ELSE LegacyResult(FALSE, ErrPopupBlocked, "url new tab")
         ELSE LegacyResult(TRUE, Undef, "url iframe")
    ELSE IF ~env.document
         THEN LegacyResult(FALSE, ErrNoDocument, "html")
         ELSE IF Truthy(options.popup)
         THEN IF env.open
              THEN LegacyResult(TRUE, Undef, "html popup")
              ELSE LegacyResult(FALSE, ErrPopupBlocked, "html popup")
         ELSE IF env.contentWindow
         THEN LegacyResult(TRUE, Undef, "html iframe")
         ELSE LegacyResult(FALSE, ErrContentWindow, "html iframe")

(***************************************************************************)
(* What a branch of legacyPrint does to the page before it returns or      *)
(* throws: it creates a hidden iframe, it calls window.open, it logs the   *)
(* cross-origin warning, it calls window.print() itself, and (when it      *)
(* returns) it has registered a load callback that will focus and print.   *)
(***************************************************************************)
(* Mutant: the url popup branch goes on to create the hidden iframe too. *)
CreatesFrame_PopupToo(path) == path \in {"url popup", "url iframe", "html iframe"}

CreatesFrame(path) == path \in {"url iframe", "html iframe"}

CallsWindowOpen(path) == path \in {"url popup", "url new tab", "html popup"}

WarnsCrossOrigin(path) == path = "url new tab"

PrintsSynchronously(path) == path = "window.print"

(* Mutant: the new tab of a cross-origin url is printed from on load. *)
RegistersLoadCallback_NewTabToo(path) ==
    path \in {"url popup", "url new tab", "url iframe", "html popup", "html iframe"}

RegistersLoadCallback(path) ==
    path \in {"url popup", "url iframe", "html popup", "html iframe"}

(***************************************************************************)
(* `return legacyPrint(legacyOpts)`: print's promise takes legacyPrint's   *)
(* outcome.                                                                *)
(***************************************************************************)
ReturnLegacyPrint(L) ==
    [Emit(L, "call", "legacyPrint", Undef) EXCEPT !.pc = "legacyPrint"]

(* Mutant: a legacyPrint that throws is called a second time. *)
LegacySettled_Retry(L, r) ==
    IF r.ok
    THEN Resolve([Emit(L, "return", "legacyPrint", Undef)
                    EXCEPT !.legacyPath = r.path,
                           !.onload = IF RegistersLoadCallback(r.path)
                                      THEN "pending"
                                      ELSE "none"])
    ELSE LET L1 == ReturnLegacyPrint(Emit(L, "throw", "legacyPrint", r.error))
         IN  Reject([Emit(L1, "throw", "legacyPrint", r.error)
                       EXCEPT !.legacyPath = r.path],
                    r.error)

LegacySettled(L, r) ==
    IF r.ok
    THEN Resolve([Emit(L, "return", "legacyPrint", Undef)
                    EXCEPT !.legacyPath = r.path,
                           !.onload = IF RegistersLoadCallback(r.path)
                                      THEN "pending"
                                      ELSE "none"])
    ELSE Reject([Emit(L, "throw", "legacyPrint", r.error) EXCEPT !.legacyPath = r.path],
                r.error)

(***************************************************************************)
(* print: normalization of the per-backend working copies.  A working copy *)
(* is made with an object spread (`{ ...options.legacy }`), so it is a new *)
(* object: Aliased tells whether a working copy is the caller's own nested *)
(* object, in which case a write to the copy is a write to the request.    *)
(***************************************************************************)
(* Mutant: the working copies are the caller's nested objects themselves. *)
Aliased_SameObject(which) == TRUE

Aliased(which) == FALSE

NormalizeLegacy(o) ==
    LET base == IF o.legacy.present
                THEN o.legacy
                ELSE IF Truthy(o.html) \/ Truthy(o.url)
                THEN [present |-> TRUE, html |-> o.html, url |-> o.url, popup |-> Undef]
                ELSE NoLegacy
        withHtml == IF base.present /\ Truthy(o.html) /\ ~Truthy(base.html)
                    THEN [base EXCEPT !.html = o.html]
                    ELSE base
    IN  IF withHtml.present /\ Truthy(o.url) /\ ~Truthy(withHtml.url)
        THEN [withHtml EXCEPT !.url = o.url]
        ELSE withHtml

NormalizeBeast(o) ==
    LET base == IF o.beast.present
                THEN o.beast
                ELSE IF Truthy(o.html)
                THEN [NoBeast EXCEPT !.present = TRUE, !.mode = "html", !.html = o.html]
                ELSE NoBeast
        withHtml == IF base.present /\ Truthy(o.html) /\ base.mode = "html"
                       /\ ~Truthy(base.html)
                    THEN [base EXCEPT !.html = o.html]
                    ELSE base
    IN  IF withHtml.present /\ Truthy(o.url) /\ IsNullish(withHtml.url)
        THEN [withHtml EXCEPT !.url = o.url]
        ELSE withHtml

NormalizePrintdesk(o) ==
    LET base == IF o.printdesk.present THEN o.printdesk ELSE NoPrintdesk
    IN  IF base.present /\ Truthy(o.url) /\ IsNullish(base.url)
        THEN [base EXCEPT !.url = o.url]
        ELSE base

(***************************************************************************)
(* print: the memoized template render (ensureRenderedTemplateHtml).  Every *)
(* caller has tested beastHasTemplate before it calls.                     *)
(***************************************************************************)
BeastHasTemplate(L) == L.beastOpts.present /\ Truthy(L.beastOpts.templateId)

(* Mutant: the memo is never consulted. *)
RenderMemoized_Never(L) == FALSE

(* Mutant: the memo is module-level, filled by any call in progress. *)
RenderMemoized_Shared(L) == \E c \in Slots : call[c].renderedTemplateHtml # Undef

RenderMemoized(L) == L.renderedTemplateHtml # Undef

RenderRequest(L) ==
    [Request(BeastRenderUrl, "POST", "template", L.beastOpts.templateId, Undef)
       EXCEPT !.widthMm = WidthMm(L.beastOpts), !.data = Data(L.beastOpts)]

SuspendInRender(L, for) ==
    Fetch([Emit(L, "call", "renderTemplateToHtml", for) EXCEPT !.renderFor = for],
          RenderRequest(L), "render")

InjectLegacyHtml(L, html) ==
    IF Truthy(html)
    THEN [L EXCEPT !.legacyOpts.html = html,
                   !.options.legacy.html =
                       IF Aliased("legacy") /\ L.options.legacy.present THEN html ELSE @]
    ELSE L

(* Mutant: the rendered html is not written to the printdesk copy. *)
InjectPrintdeskHtml_Dropped(L, html) == L

InjectPrintdeskHtml(L, html) ==
    IF Truthy(html)
    THEN [L EXCEPT !.printdeskOpts.html = html,
                   !.options.printdesk.html =
                       IF Aliased("printdesk") /\ L.options.printdesk.present
                       THEN html
                       ELSE @]
    ELSE L

(***************************************************************************)
(* print: the fallback helper of the explicit strategies.                  *)
(***************************************************************************)
(* Mutant: the fallbackToLegacyOnError flag is not tested. *)
MaybeFallbackToLegacy_IgnoresFlag(L, err) ==
    IF ~L.legacyOpts.present
    THEN Reject(L, err)
    ELSE ReturnLegacyPrint(Emit(L, "warn", "fallbackToLegacyOnError", err))

MaybeFallbackToLegacy(L, err) ==
    IF ~L.fallbackToLegacy \/ ~L.legacyOpts.present
    THEN Reject(L, err)
    ELSE ReturnLegacyPrint(Emit(L, "warn", "fallbackToLegacyOnError", err))

(***************************************************************************)
(* print: strategy 'legacy', and the third stage of 'auto'.                *)
(***************************************************************************)
StrategyLegacy(L) ==
    IF L.legacyOpts.present /\ ~Truthy(L.legacyOpts.html) /\ BeastHasTemplate(L)
    THEN IF RenderMemoized(L)
         THEN ReturnLegacyPrint(InjectLegacyHtml(L, L.renderedTemplateHtml))
         ELSE SuspendInRender(L, "legacy")
    ELSE ReturnLegacyPrint(L)

(* Mutant: legacyPrint is called whether or not legacy options exist. *)
AutoLegacy_NoGuard(L) ==
    IF ~Truthy(L.legacyOpts.html) /\ BeastHasTemplate(L)
    THEN IF RenderMemoized(L)
         THEN ReturnLegacyPrint(InjectLegacyHtml(L, L.renderedTemplateHtml))
         ELSE SuspendInRender(L, "legacy")
    ELSE ReturnLegacyPrint(L)

AutoLegacy(L) ==
    IF L.legacyOpts.present
    THEN IF ~Truthy(L.legacyOpts.html) /\ BeastHasTemplate(L)
         THEN IF RenderMemoized(L)
              THEN ReturnLegacyPrint(InjectLegacyHtml(L, L.renderedTemplateHtml))
              ELSE SuspendInRender(L, "legacy")
         ELSE ReturnLegacyPrint(L)
    ELSE Reject(L, ErrNoUsableConfig)

(***************************************************************************)
(* printdeskPrint, and what print does when it settles.                    *)
(***************************************************************************)
StrategyPrintdeskSettled(L, ok, err) ==
    IF ok THEN Resolve(L) ELSE MaybeFallbackToLegacy(L, err)

(* Mutant: the `return` after a successful printdeskPrint is missing. *)
AutoPrintdeskSettled_NoReturn(L, ok, err) ==
    AutoLegacy(IF ok THEN L ELSE Emit(L, "warn", "auto: Printdesk failed", err))

(* Mutant: a failure of printdeskPrint is not caught. *)
AutoPrintdeskSettled_Rethrow(L, ok, err) ==
    IF ok THEN Resolve(L) ELSE Reject(L, err)

AutoPrintdeskSettled(L, ok, err) ==
    IF ok THEN Resolve(L) ELSE AutoLegacy(Emit(L, "warn", "auto: Printdesk failed", err))

PrintdeskSettled(L, ok, err) ==
    LET L1 == Emit(L, IF ok THEN "return" ELSE "throw", "printdeskPrint", err)
    IN  IF L.strategy = "printdesk"
        THEN StrategyPrintdeskSettled(L1, ok, err)
        ELSE IF L.strategy = "auto"
        THEN AutoPrintdeskSettled(L1, ok, err)
        ELSE IF ok THEN Resolve(L1) ELSE Reject(L1, err)

(* `options.localUrl ?? 'http://127.0.0.1:43594/print'` *)
LocalUrl(options) == IF IsNullish(options.localUrl) THEN DefaultLocalUrl ELSE options.localUrl

(* `const payload = { html }`: the body is the object {html} itself. *)
PrintdeskPost(L, html) ==
    Fetch([L EXCEPT !.html = html],
          [Request(LocalUrl(L.printdeskOpts), "POST", Undef, Undef, html)
             EXCEPT !.envelope = "{html}"],
          "printdesk_post")

(* Mutant: the url is fetched whenever it is set, html or not. *)
PrintdeskPrint_UrlFirst(L) ==
    LET L1 == Emit(L, "call", "printdeskPrint", Undef)
        options == L.printdeskOpts
    IN  IF ~options.present
        THEN PrintdeskSettled(L1, FALSE, ErrNoPrintdeskOptions)
        ELSE IF Truthy(options.url)
        THEN Fetch(L1, Request(options.url, "GET", Undef, Undef, Undef), "printdesk_fetch")
        ELSE IF ~Truthy(options.html)
        THEN PrintdeskSettled(L1, FALSE, ErrPrintdeskHtmlOrUrl)
        ELSE PrintdeskPost(L1, options.html)

PrintdeskPrint(L) ==
    LET L1 == Emit(L, "call", "printdeskPrint", Undef)
        options == L.printdeskOpts
    IN  IF ~options.present
        THEN PrintdeskSettled(L1, FALSE, ErrNoPrintdeskOptions)
        ELSE IF ~Truthy(options.html) /\ Truthy(options.url)
        THEN Fetch(L1, Request(options.url, "GET", Undef, Undef, Undef), "printdesk_fetch")
        ELSE IF ~Truthy(options.html)
        THEN PrintdeskSettled(L1, FALSE, ErrPrintdeskHtmlOrUrl)
        ELSE PrintdeskPost(L1, options.html)

PrintdeskFetched(L, resp) ==
    IF resp = "rejected"
    THEN PrintdeskSettled(L, FALSE, ErrFetchRejected)
    ELSE IF ~ResponseOk(resp)
    THEN PrintdeskSettled(L, FALSE, ErrPrintdeskFetchUrl)
    ELSE IF ~Truthy(ResponseText(resp, FetchedHtml))
    THEN PrintdeskSettled(L, FALSE, ErrPrintdeskHtmlOrUrl)
    ELSE PrintdeskPost(L, ResponseText(resp, FetchedHtml))

(* Mutant: printdeskPrint goes on waiting whatever the POST returns. *)
PrintdeskPosted_Hangs(L, resp) == L

PrintdeskPosted(L, resp) ==
    IF resp = "rejected"
    THEN PrintdeskSettled(L, FALSE, ErrFetchRejected)
    ELSE IF ~ResponseOk(resp)
    THEN PrintdeskSettled(L, FALSE, ErrLocalPrintdesk)
    ELSE PrintdeskSettled(L, TRUE, Undef)

(***************************************************************************)
(* print: strategy 'printdesk', and the second stage of 'auto'.  In 'auto' *)
(* the render runs inside the stage's try block, in 'printdesk' before it. *)
(***************************************************************************)
(* Mutant: the render-and-reuse step of strategy 'printdesk' is missing. *)
StrategyPrintdesk_NoRender(L) == PrintdeskPrint(L)

StrategyPrintdesk(L) ==
    IF L.printdeskOpts.present /\ ~Truthy(L.printdeskOpts.html) /\ BeastHasTemplate(L)
    THEN IF RenderMemoized(L)
         THEN PrintdeskPrint(InjectPrintdeskHtml(L, L.renderedTemplateHtml))
         ELSE SuspendInRender(L, "printdesk")
    ELSE PrintdeskPrint(L)

HasPrintdeskConfig(options) ==
    options.present /\ (Truthy(options.html) \/ Truthy(options.url))

AutoPrintdesk(L) ==
    IF HasPrintdeskConfig(L.printdeskOpts)
    THEN IF L.printdeskOpts.present /\ ~Truthy(L.printdeskOpts.html)
            /\ BeastHasTemplate(L)
         THEN IF RenderMemoized(L)
              THEN PrintdeskPrint(InjectPrintdeskHtml(L, L.renderedTemplateHtml))
              ELSE SuspendInRender(L, "printdesk")
         ELSE PrintdeskPrint(L)
    ELSE AutoLegacy(L)

(***************************************************************************)
(* renderTemplateToHtml's response, and the code that awaited it.          *)
(***************************************************************************)
(* Mutant: a render failure rejects print in every stage. *)
RenderFailed_Rethrow(L, err) ==
    Reject(Emit(L, "throw", "renderTemplateToHtml", err), err)

RenderFailed(L, err) ==
    LET L1 == Emit(L, "throw", "renderTemplateToHtml", err)
    IN  IF L.renderFor = "printdesk" /\ L.strategy = "auto"
        THEN AutoLegacy(Emit(L1, "warn", "auto: Printdesk failed", err))
        ELSE Reject(L1, err)

RenderReturned(L, html) ==
    LET L1 == [Emit(L, "return", "renderTemplateToHtml", Undef)
                 EXCEPT !.renderedTemplateHtml = html]
    IN  IF L.renderFor = "printdesk"
        THEN PrintdeskPrint(InjectPrintdeskHtml(L1, html))
        ELSE ReturnLegacyPrint(InjectLegacyHtml(L1, html))

RenderResponded(L, resp) ==
    IF resp = "rejected"
    THEN RenderFailed(L, ErrFetchRejected)
    ELSE IF ~ResponseOk(resp)
    THEN RenderFailed(L, ErrRender)
    ELSE RenderReturned(L, ResponseText(resp, RenderedHtml))

(***************************************************************************)
(* beastPrint, and what print does when it settles.  A frame whose         *)
(* strategy is Undef is a call of the exported beastPrint itself: no print *)
(* is on the stack, and the adapter's outcome is the call's outcome.       *)
(***************************************************************************)
StrategyBeastSettled(L, ok, err) ==
    IF ok THEN Resolve(L) ELSE MaybeFallbackToLegacy(L, err)

(* Mutant: the `return` after a successful beastPrint is missing. *)
AutoBeastSettled_NoReturn(L, ok, err) ==
    AutoPrintdesk(IF ok THEN L ELSE Emit(L, "warn", "auto: BeastPrint failed", err))

(* Mutant: a failure of beastPrint is not caught. *)
AutoBeastSettled_Rethrow(L, ok, err) ==
    IF ok THEN Resolve(L) ELSE Reject(L, err)

AutoBeastSettled(L, ok, err) ==
    IF ok THEN Resolve(L) ELSE AutoPrintdesk(Emit(L, "warn", "auto: BeastPrint failed", err))

BeastSettled(L, ok, err) ==
    LET L1 == Emit(L, IF ok THEN "return" ELSE "throw", "beastPrint", err)
    IN  IF L.strategy = "beast"
        THEN StrategyBeastSettled(L1, ok, err)
        ELSE IF L.strategy = "auto"
        THEN AutoBeastSettled(L1, ok, err)
        ELSE IF ok THEN Resolve(L1) ELSE Reject(L1, err)

(* Mutant: an absent mode is inferred as 'html' when html or url exists. *)
BeastMode_Inferred(options) ==
    IF ~IsNullish(options.mode)
    THEN options.mode
    ELSE IF Truthy(options.html) \/ Truthy(options.url) THEN "html" ELSE "template"

(* `options.mode ?? 'template'` *)
BeastMode(options) == IF IsNullish(options.mode) THEN "template" ELSE options.mode

(* Mutant: the templateId is honoured only in template mode. *)
TemplateIdWins_OnlyInTemplateMode(options) ==
    Truthy(options.templateId) /\ BeastMode(options) = "template"

(* `if (options.templateId)`: template mode wins over everything else. *)
TemplateIdWins(options) == Truthy(options.templateId)

BeastTemplateRequest(options) ==
    [Request(BeastPrintUrl, "POST", "template", options.templateId, Undef)
       EXCEPT !.widthMm = WidthMm(options), !.data = Data(options),
              !.printerKey = options.printerKey]

BeastPostHtml(L, mode, html) ==
    Fetch([L EXCEPT !.html = html],
          [Request(BeastPrintUrl, "POST", mode, Undef, html)
             EXCEPT !.widthMm = WidthMm(L.beastOpts),
                    !.printerKey = L.beastOpts.printerKey],
          "beast_post")

(* Mutant: the printer.key check is missing. *)
BeastPrint_NoKeyCheck(L) ==
    LET L1 == Emit(L, "call", "beastPrint", Undef)
        options == L.beastOpts
        mode == BeastMode(options)
    IN  IF ~options.present
        THEN BeastSettled(L1, FALSE, ErrNoBeastOptions)
        ELSE IF TemplateIdWins(options)
        THEN Fetch(L1, BeastTemplateRequest(options), "beast_post")
        ELSE IF mode = "template"
        THEN BeastSettled(L1, FALSE, ErrTemplateId)
        ELSE IF mode = "html"
        THEN IF ~Truthy(options.html) /\ Truthy(options.url)
             THEN Fetch(L1, Request(options.url, "GET", Undef, Undef, Undef), "beast_fetch")
             ELSE IF ~Truthy(options.html)
             THEN BeastSettled(L1, FALSE, ErrBeastHtmlOrUrl)
             ELSE BeastPostHtml(L1, mode, options.html)
        ELSE BeastSettled(L1, FALSE, ErrUnsupportedMode)

BeastPrint(L) ==
    LET L1 == Emit(L, "call", "beastPrint", Undef)
        options == L.beastOpts
        mode == BeastMode(options)
    IN  IF ~options.present
        THEN BeastSettled(L1, FALSE, ErrNoBeastOptions)
        ELSE IF ~Truthy(options.printerKey)
        THEN BeastSettled(L1, FALSE, ErrPrinterKey)
        ELSE IF TemplateIdWins(options)
        THEN Fetch(L1, BeastTemplateRequest(options), "beast_post")
        ELSE IF mode = "template"
        THEN BeastSettled(L1, FALSE, ErrTemplateId)
        ELSE IF mode = "html"
        THEN IF ~Truthy(options.html) /\ Truthy(options.url)
             THEN Fetch(L1, Request(options.url, "GET", Undef, Undef, Undef), "beast_fetch")
             ELSE IF ~Truthy(options.html)
             THEN BeastSettled(L1, FALSE, ErrBeastHtmlOrUrl)
             ELSE BeastPostHtml(L1, mode, options.html)
        ELSE BeastSettled(L1, FALSE, ErrUnsupportedMode)

BeastFetched(L, resp) ==
    IF resp = "rejected"
    THEN BeastSettled(L, FALSE, ErrFetchRejected)
    ELSE IF ~ResponseOk(resp)
    THEN BeastSettled(L, FALSE, ErrBeastFetchUrl)
    ELSE IF ~Truthy(ResponseText(resp, FetchedHtml))
    THEN BeastSettled(L, FALSE, ErrBeastHtmlOrUrl)
    ELSE BeastPostHtml(L, "html", ResponseText(resp, FetchedHtml))

BeastPosted(L, resp) ==
    IF resp = "rejected"
    THEN BeastSettled(L, FALSE, ErrFetchRejected)
    ELSE IF ~ResponseOk(resp)
    THEN BeastSettled(L, FALSE, ErrBeastHttp)
    ELSE BeastSettled(L, TRUE, Undef)

(***************************************************************************)
(* print: the first stage of 'auto', and the dispatch on the strategy.     *)
(***************************************************************************)
HasBeastConfig(options) == options.present /\ Truthy(options.printerKey)

AutoBeast(L) ==
    IF HasBeastConfig(L.beastOpts) THEN BeastPrint(L) ELSE AutoPrintdesk(L)

(* Mutant: strategy 'legacy' is not dispatched on and runs the auto chain. *)
Dispatch_LegacyAsAuto(L) ==
    IF L.strategy = "beast"
    THEN BeastPrint(L)
    ELSE IF L.strategy = "printdesk"
    THEN StrategyPrintdesk(L)
    ELSE AutoBeast(L)

(* Mutant: with debug enabled for the call, 'auto' skips the Cloud stage. *)
Dispatch_DebugSkipsCloud(L) ==
    IF L.strategy = "legacy"
    THEN StrategyLegacy(L)
    ELSE IF L.strategy = "beast"
    THEN BeastPrint(L)
    ELSE IF L.strategy = "printdesk"
    THEN StrategyPrintdesk(L)
    ELSE IF L.given.debug = "true" THEN AutoPrintdesk(L) ELSE AutoBeast(L)

Dispatch(L) ==
    IF L.strategy = "legacy"
    THEN StrategyLegacy(L)
    ELSE IF L.strategy = "beast"
    THEN BeastPrint(L)
    ELSE IF L.strategy = "printdesk"
    THEN StrategyPrintdesk(L)
    ELSE AutoBeast(L)

(* The caller's request after the normalization has written to the copies. *)
Normalized(options) ==
    [options EXCEPT
       !.legacy = IF Aliased("legacy") /\ options.legacy.present
                  THEN NormalizeLegacy(options)
                  ELSE @,
       !.beast = IF Aliased("beast") /\ options.beast.present
                 THEN NormalizeBeast(options)
                 ELSE @,
       !.printdesk = IF Aliased("printdesk") /\ options.printdesk.present
                     THEN NormalizePrintdesk(options)
                     ELSE @]

print(options, prev) ==
    Dispatch([IdleFrame EXCEPT
                !.options = Normalized(options),
                !.given = options,
                !.prevDebugConfig = prev,
                !.strategy = IF IsNullish(options.strategy) THEN "auto" ELSE options.strategy,
                !.fallbackToLegacy = (options.fallbackToLegacyOnError = "true"),
                !.legacyOpts = NormalizeLegacy(options),
                !.beastOpts = NormalizeBeast(options),
                !.printdeskOpts = NormalizePrintdesk(options)])

OverrideDebug(config, options) ==
    IF options.debug \in {"true", "false"}
    THEN [config EXCEPT !.enabled = (options.debug = "true")]
    ELSE config

(***************************************************************************)
(* The actions.  A run ends suspended at a fetch, or settled; at           *)
(* `return legacyPrint(...)` the environment decides legacyPrint's outcome *)
(* in the same run.  When the run settles print's promise, the finally     *)
(* block has restored the debug configuration saved at the call.           *)
(***************************************************************************)
(* Mutant: the finally block does not restore the saved configuration. *)
Finally_NoRestore(L, config) == config

Finally(L, config) == IF L.pc \in Settled THEN L.prevDebugConfig ELSE config

Commit(c, L, config) ==
    /\ call' = [call EXCEPT ![c] = L]
    /\ debugConfig' = Finally(L, config)

Run(c, L, config) ==
    IF L.pc = "legacyPrint"
    THEN \E env \in Envs : Commit(c, LegacySettled(L, LegacyPrint(L.legacyOpts, env)), config)
    ELSE Commit(c, L, config)

NoOtherCall(c) == \A d \in Slots \ {c} : call[d].pc = "idle"

StartPrint(c) ==
    /\ call[c].pc = "idle"
    /\ NoOtherCall(c)
    /\ \E options \in PrintOptions :
          Run(c, print(options, debugConfig), OverrideDebug(debugConfig, options))

RenderResponse(c) ==
    /\ call[c].pc = "render"
    /\ \E resp \in Responses : Run(c, RenderResponded(call[c], resp), debugConfig)

BeastFetchResponse(c) ==
    /\ call[c].pc = "beast_fetch"
    /\ \E resp \in Responses : Run(c, BeastFetched(call[c], resp), debugConfig)

BeastPostResponse(c) ==
    /\ call[c].pc = "beast_post"
    /\ \E resp \in Responses : Run(c, BeastPosted(call[c], resp), debugConfig)

PrintdeskFetchResponse(c) ==
    /\ call[c].pc = "printdesk_fetch"
    /\ \E resp \in Responses : Run(c, PrintdeskFetched(call[c], resp), debugConfig)

PrintdeskPostResponse(c) ==
    /\ call[c].pc = "printdesk_post"
    /\ \E resp \in Responses : Run(c, PrintdeskPosted(call[c], resp), debugConfig)

(***************************************************************************)
(* The load event of the window or iframe legacyPrint printed into, after  *)
(* legacyPrint has returned: the callback focuses and prints; when that    *)
(* throws, or the url iframe has no contentWindow, it logs console.error.  *)
(***************************************************************************)
LoadOutcomes(path) ==
    {"printed", "focus or print threw"}
    \cup (IF path = "url iframe" THEN {"no contentWindow"} ELSE {})

(* Mutant: a failure in the callback is rethrown into the call's outcome. *)
LoadCallback_Rejects(L, outcome) ==
    IF outcome = "printed"
    THEN [L EXCEPT !.onload = outcome]
    ELSE Reject([L EXCEPT !.onload = outcome], outcome)

(* The callbacks whose finally block sets the one-second timer. *)
SchedulesTeardown(path) == path \in {"url iframe", "html popup", "html iframe"}

Teardown(L, outcome) ==
    IF outcome = "no contentWindow"
    THEN "done"
    ELSE IF SchedulesTeardown(L.legacyPath) THEN "scheduled" ELSE "none"

LoadCallback(L, outcome) ==
    IF outcome = "printed"
    THEN [L EXCEPT !.onload = outcome, !.teardown = Teardown(L, outcome)]
    ELSE [Emit(L, "console.error", "legacyPrint onload", outcome)
            EXCEPT !.onload = outcome, !.teardown = Teardown(L, outcome)]

LoadEvent(c) ==
    /\ call[c].onload = "pending"
    /\ \E outcome \in LoadOutcomes(call[c].legacyPath) :
          call' = [call EXCEPT ![c] = LoadCallback(call[c], outcome)]
    /\ UNCHANGED debugConfig

(* The timer set by the load callback fires: iframe.remove() or win.close(). *)
TeardownTimer(c) ==
    /\ call[c].teardown = "scheduled"
    /\ call' = [call EXCEPT ![c].teardown = "done"]
    /\ UNCHANGED debugConfig

(* The caller has seen the outcome; the slot is free for the next call. *)
Forget(c) ==
    /\ call[c].pc \in Settled
    /\ call' = [call EXCEPT ![c] = IdleFrame]
    /\ UNCHANGED debugConfig

ConfigureDebug ==
    /\ \A c \in Slots : call[c].pc = "idle"
    /\ \E enabled \in BOOLEAN : debugConfig' = [debugConfig EXCEPT !.enabled = enabled]
    /\ UNCHANGED call

(***************************************************************************)
(* Spec: the module is loaded (debug disabled); then print is called one   *)
(* call at a time, and configureDebug between calls.                       *)
(***************************************************************************)
Init ==
    /\ debugConfig = [enabled |-> FALSE]
    /\ call = [c \in Slots |-> IdleFrame]

Next ==
    \/ ConfigureDebug
    \/ \E c \in OneAtATime :
          \/ StartPrint(c)
          \/ RenderResponse(c)
          \/ BeastFetchResponse(c)
          \/ BeastPostResponse(c)
          \/ PrintdeskFetchResponse(c)
          \/ PrintdeskPostResponse(c)
          \/ Forget(c)

Spec == Init /\ [][Next]_vars

(***************************************************************************)
(* FairSpec: print is called one call at a time, without a debug override  *)
(* (the override plays no part in how a call proceeds), and every fetch a  *)
(* call is suspended at eventually returns a response or an error.  The    *)
(* code sets no timeout and passes no abort signal, so nothing else        *)
(* resumes a suspended call.                                               *)
(***************************************************************************)
NoDebugOverride == {o \in PrintOptions : o.debug = Undef}

StartPrintNoOverride(c) ==
    /\ call[c].pc = "idle"
    /\ NoOtherCall(c)
    /\ \E options \in NoDebugOverride :
          Run(c, print(options, debugConfig), OverrideDebug(debugConfig, options))

RemoteCallReturns(c) ==
    \/ RenderResponse(c)
    \/ BeastFetchResponse(c)
    \/ BeastPostResponse(c)
    \/ PrintdeskFetchResponse(c)
    \/ PrintdeskPostResponse(c)

FairNext ==
    \E c \in OneAtATime :
        \/ StartPrintNoOverride(c)
        \/ RemoteCallReturns(c)
        \/ Forget(c)

FairSpec ==
    /\ Init
    /\ [][FairNext]_vars
    /\ \A c \in OneAtATime : WF_vars(RemoteCallReturns(c))

(***************************************************************************)
(* AdapterSpec: the exported adapters are called directly, one call at a   *)
(* time, with options drawn from the whole option type (every mode, empty  *)
(* strings, widthMm and data).                                             *)
(***************************************************************************)
BeastOptions ==
    {NoBeast} \cup
    [present : {TRUE}, printerKey : {Undef, "", "printer-key"},
     mode : {Undef, "template", "html", "pdf"}, templateId : {Undef, "", "template-1"},
     widthMm : OptStr("58"), data : OptStr("{order: 1}"),
     html : {Undef, "", "beast.html"}, url : OptStr("beast.url")]

CallBeastPrint(c) ==
    /\ call[c].pc = "idle"
    /\ NoOtherCall(c)
    /\ \E options \in BeastOptions :
          Run(c, BeastPrint([IdleFrame EXCEPT !.beastOpts = options,
                                              !.prevDebugConfig = debugConfig]),
              debugConfig)

PdfOptionsValues ==
    {NoPdfOptions,
     [NoPdfOptions EXCEPT !.present = TRUE],
     [NoPdfOptions EXCEPT !.present = TRUE, !.copies = "3"],
     [NoPdfOptions EXCEPT !.present = TRUE, !.pageSize = "{width: 58000}",
                          !.landscape = "true"]}

PrintdeskOptions ==
    {NoPrintdesk} \cup
    [present : {TRUE}, html : {Undef, "", "printdesk.html"}, url : OptStr("printdesk.url"),
     localUrl : OptStr("http://localhost:9100/print"), pdfOptions : PdfOptionsValues,
     printerName : OptStr("EPSON_TM-m30II")]

LegacyOptions ==
    {NoLegacy} \cup
    [present : {TRUE}, html : {Undef, "", "legacy.html"}, url : OptStr("legacy.url"),
     popup : OptStr("true")]

(* legacyPrint called directly: the frame keeps the environment it ran in. *)
CallLegacyPrint(c) ==
    /\ call[c].pc = "idle"
    /\ NoOtherCall(c)
    /\ \E options \in LegacyOptions, env \in Envs :
          LET L == ReturnLegacyPrint([IdleFrame EXCEPT !.legacyOpts = options,
                                                       !.prevDebugConfig = debugConfig,
                                                       !.env = env])
          IN  Commit(c, LegacySettled(L, LegacyPrint(options, env)), debugConfig)

CallPrintdeskPrint(c) ==
    /\ call[c].pc = "idle"
    /\ NoOtherCall(c)
    /\ \E options \in PrintdeskOptions :
          Run(c, PrintdeskPrint([IdleFrame EXCEPT !.printdeskOpts = options,
                                                  !.prevDebugConfig = debugConfig]),
              debugConfig)

AdapterNext ==
    \E c \in OneAtATime :
        \/ CallBeastPrint(c)
        \/ BeastFetchResponse(c)
        \/ BeastPostResponse(c)
        \/ CallPrintdeskPrint(c)
        \/ PrintdeskFetchResponse(c)
        \/ PrintdeskPostResponse(c)
        \/ CallLegacyPrint(c)
        \/ LoadEvent(c)
        \/ TeardownTimer(c)
        \/ Forget(c)

AdapterSpec == Init /\ [][AdapterNext]_vars

(***************************************************************************)
(* TeardownSpec: one direct call of legacyPrint, the load event of what it *)
(* created, and the timer the callback set.  A timer that was set fires:   *)
(* the event loop runs every due timer callback.                           *)
(***************************************************************************)
TeardownNext ==
    \E c \in OneAtATime :
        \/ CallLegacyPrint(c)
        \/ LoadEvent(c)
        \/ TeardownTimer(c)

TeardownSpec ==
    /\ Init
    /\ [][TeardownNext]_vars
    /\ \A c \in OneAtATime : WF_vars(TeardownTimer(c))

(***************************************************************************)
(* OverlapSpec: print is called again while an earlier call is suspended   *)
(* at its network call.  print is an async function, so a second call made *)
(* before the first is awaited runs its synchronous part (the save and the *)
(* override of the debug configuration) while the first is suspended.      *)
(* Every call carries a debug override.  The calls of a group take the     *)
(* slots in order: slot 1 starts when nothing is in progress, slot 2 while *)
(* slot 1 is suspended; the slots are freed together once all settled.     *)
(***************************************************************************)
OverlapOptions ==
    {[NoOptions EXCEPT !.strategy = "beast", !.debug = debug,
                       !.beast = [NoBeast EXCEPT !.present = TRUE,
                                                 !.printerKey = "printer-key",
                                                 !.templateId = "template-1"]] :
        debug \in {"true", "false"}}
    \cup
    {[NoOptions EXCEPT !.strategy = "printdesk", !.debug = debug,
                       !.printdesk = [NoPrintdesk EXCEPT !.present = TRUE,
                                                         !.html = "printdesk.html"]] :
        debug \in {"true", "false"}}

(* Requests whose agent stage needs the template rendered first. *)
TemplateOptions ==
    {[NoOptions EXCEPT !.strategy = "printdesk", !.debug = debug,
                       !.printdesk = [NoPrintdesk EXCEPT !.present = TRUE],
                       !.beast = [NoBeast EXCEPT !.present = TRUE,
                                                 !.templateId = templateId]] :
        debug \in {"true", "false"}, templateId \in {"template-1", "template-2"}}

StartOverlapping(c) ==
    /\ call[c].pc = "idle"
    /\ \A d \in Slots : IF d < c THEN Suspended(call[d]) ELSE call[d].pc = "idle"
    /\ \E options \in OverlapOptions \cup TemplateOptions :
          Run(c, print(options, debugConfig), OverrideDebug(debugConfig, options))

(* The caller has seen every outcome of the group; all slots are free. *)
ForgetAll ==
    /\ \A c \in Slots : ~Suspended(call[c])
    /\ \E c \in Slots : call[c].pc \in Settled
    /\ call' = [c \in Slots |-> IdleFrame]
    /\ UNCHANGED debugConfig

OverlapNext ==
    \/ ConfigureDebug
    \/ ForgetAll
    \/ \E c \in Slots :
          \/ StartOverlapping(c)
          \/ RenderResponse(c)
          \/ BeastPostResponse(c)
          \/ PrintdeskPostResponse(c)

OverlapSpec == Init /\ [][OverlapNext]_vars

(***************************************************************************)
(* PairSpec: the same request is run twice, in two worlds that get the     *)
(* same answers: the n-th fetch of either run is answered alike and        *)
(* legacyPrint finds the same browser environment.  Slot 1 is the run      *)
(* without a debug override and with debug disabled; slot 2 is the run     *)
(* with an override, under either global debug configuration.              *)
(***************************************************************************)
Resume(L, resp) ==
    IF L.pc = "render"
    THEN RenderResponded(L, resp)
    ELSE IF L.pc = "beast_fetch"
    THEN BeastFetched(L, resp)
    ELSE IF L.pc = "beast_post"
    THEN BeastPosted(L, resp)
    ELSE IF L.pc = "printdesk_fetch"
    THEN PrintdeskFetched(L, resp)
    ELSE IF L.pc = "printdesk_post" THEN PrintdeskPosted(L, resp) ELSE L

InEnv(L, env) ==
    IF L.pc = "legacyPrint" THEN LegacySettled(L, LegacyPrint(L.legacyOpts, env)) ELSE L

PairCommit(L1, L2) ==
    IF L1.pc = "legacyPrint" \/ L2.pc = "legacyPrint"
    THEN \E env \in Envs :
            /\ call' = [c \in Slots |-> IF c = 1 THEN InEnv(L1, env) ELSE InEnv(L2, env)]
            /\ debugConfig' = Finally(InEnv(L1, env), debugConfig)
    ELSE /\ call' = [c \in Slots |-> IF c = 1 THEN L1 ELSE L2]
         /\ debugConfig' = Finally(L1, debugConfig)

StartPair ==
    /\ \A c \in Slots : call[c].pc = "idle"
    /\ \E options \in NoDebugOverride, debug \in {"true", "false"}, enabled \in BOOLEAN :
          PairCommit(print(options, debugConfig),
                     print([options EXCEPT !.debug = debug], [enabled |-> enabled]))

PairResponse ==
    /\ \E c \in Slots : Suspended(call[c])
    /\ \E resp \in Responses : PairCommit(Resume(call[1], resp), Resume(call[2], resp))

PairNext ==
    \/ StartPair
    \/ PairResponse
    \/ ForgetAll

PairSpec == Init /\ [][PairNext]_vars

(***************************************************************************)
(* src/src/index.ts: the TypeScript source of print and its adapters.  Its *)
(* print returns the promise of the selected adapter without awaiting it   *)
(* (only auto's beastPrint is awaited), auto tries beastPrint and then     *)
(* legacyPrint, printdeskPrint takes printerId, saleId, sample and         *)
(* printUrl, and legacyPrint has no cross-origin branch.  The definitions  *)
(* of this source carry the prefix Ts.                                     *)
(***************************************************************************)
TsErrNoValidConfig == "No valid print configuration provided"

TsErrTemplateId == "templateId is required when mode=\"template\""

TsErrHtml == "html is required when mode=\"html\""

TsErrPrinterId == "Printdesk: printerId is required"

TsErrSaleId == "Printdesk: saleId is required"

TsErrPrintUrl == "Printdesk: printUrl is required"

TsErrBackend == "Printdesk backend error"

TsErrJson == "Printdesk: failed to parse backend response as JSON"

TsBeastValues ==
    {NoBeast} \cup
    [present : {TRUE}, printerKey : OptStr("printer-key"), mode : {Undef, "html", "pdf"},
     templateId : OptStr("template-1"), widthMm : {Undef}, data : {Undef},
     html : OptStr("beast.html"), url : {Undef}]

TsNoPrintdesk ==
    [present |-> FALSE, printerId |-> Undef, saleId |-> Undef, sample |-> Undef,
     printUrl |-> Undef, localUrl |-> Undef]

TsPrintdeskValues ==
    {TsNoPrintdesk} \cup
    [present : {TRUE}, printerId : {Undef, "", "printer-7"}, saleId : OptStr("sale-42"),
     sample : {"false"}, printUrl : OptStr("https://shop.example/print"),
     localUrl : OptStr("http://localhost:9100/print")]

TsPrintOptions ==
    [strategy : StrategyValues, legacy : LegacyValues, beast : TsBeastValues,
     printdesk : TsPrintdeskValues, debug : DebugValues]

(* legacyPrint of this source: every url without popup goes to the iframe. *)
TsLegacyPrint(options, env) == LegacyPrint(options, [env EXCEPT !.sameOrigin = TRUE])

TsAutoLegacy(L) ==
    IF L.legacyOpts.present THEN ReturnLegacyPrint(L) ELSE Reject(L, TsErrNoValidConfig)

TsBeastSettled(L, ok, err) ==
    LET L1 == Emit(L, IF ok THEN "return" ELSE "throw", "beastPrint", err)
    IN  IF ok
        THEN Resolve(L1)
        ELSE IF L.strategy = "auto"
        THEN TsAutoLegacy(Emit(L1, "warn", "BeastPrint failed, falling back to legacy", err))
        ELSE Reject(L1, err)

TsBeastPrint(L) ==
    LET L1 == Emit(L, "call", "beastPrint", Undef)
        options == L.beastOpts
        mode == IF IsNullish(options.mode) THEN "template" ELSE options.mode
        body == [Request(BeastPrintUrl, "POST", mode, Undef, Undef)
                   EXCEPT !.widthMm = WidthMm(options), !.printerKey = options.printerKey]
    IN  IF ~options.present
        THEN TsBeastSettled(L1, FALSE, ErrNoBeastOptions)
        ELSE IF ~Truthy(options.printerKey)
        THEN TsBeastSettled(L1, FALSE, ErrPrinterKey)
        ELSE IF mode = "template"
        THEN IF ~Truthy(options.templateId)
             THEN TsBeastSettled(L1, FALSE, TsErrTemplateId)
             ELSE Fetch(L1, [body EXCEPT !.templateId = options.templateId,
                                         !.data = Data(options)],
                        "beast_post")
        ELSE IF mode = "html"
        THEN IF ~Truthy(options.html)
             THEN TsBeastSettled(L1, FALSE, TsErrHtml)
             ELSE Fetch(L1, [body EXCEPT !.content = options.html], "beast_post")
        ELSE TsBeastSettled(L1, FALSE, ErrUnsupportedMode)

TsBeastPosted(L, resp) ==
    IF resp = "rejected"
    THEN TsBeastSettled(L, FALSE, ErrFetchRejected)
    ELSE IF ~ResponseOk(resp)
    THEN TsBeastSettled(L, FALSE, ErrBeastHttp)
    ELSE TsBeastSettled(L, TRUE, Undef)

TsPrintdeskSettled(L, ok, err) ==
    LET L1 == Emit(L, IF ok THEN "return" ELSE "throw", "printdeskPrint", err)
    IN  IF ok THEN Resolve(L1) ELSE Reject(L1, err)

(* The query string of the GET: printer, sale and String(sample). *)
TsQuery(options) == <<options.printerId, options.saleId, options.sample>>

TsPrintdeskPrint(L) ==
    LET L1 == Emit(L, "call", "printdeskPrint", Undef)
        options == L.printdeskOpts
    IN  IF ~options.present
        THEN TsPrintdeskSettled(L1, FALSE, ErrNoPrintdeskOptions)
        ELSE IF ~Truthy(options.printerId)
        THEN TsPrintdeskSettled(L1, FALSE, TsErrPrinterId)
        ELSE IF ~Truthy(options.saleId)
        THEN TsPrintdeskSettled(L1, FALSE, TsErrSaleId)
        ELSE IF ~Truthy(options.printUrl)
        THEN TsPrintdeskSettled(L1, FALSE, TsErrPrintUrl)
        ELSE Fetch(L1, [Request(options.printUrl, "GET", Undef, Undef, Undef)
                          EXCEPT !.data = TsQuery(options)],
                   "printdesk_fetch")

(* backendResponse.json(): the body parses unless it is empty. *)
BackendPayload == "{\"payload\": \"from the backend\"}"

JsonParsable(text) == text # ""

TsPrintdeskPost(L, payload) ==
    Fetch(L, [Request(LocalUrl(L.printdeskOpts), "POST", Undef, Undef, payload)
                EXCEPT !.envelope = "payload"],
          "printdesk_post")

(* Mutant: the payload is posted whatever the backend answered. *)
TsPrintdeskFetched_PostsAnyway(L, resp) ==
    IF resp = "rejected"
    THEN TsPrintdeskSettled(L, FALSE, ErrFetchRejected)
    ELSE TsPrintdeskPost(L, ResponseText(resp, BackendPayload))

TsPrintdeskFetched(L, resp) ==
    IF resp = "rejected"
    THEN TsPrintdeskSettled(L, FALSE, ErrFetchRejected)
    ELSE IF ~ResponseOk(resp)
    THEN TsPrintdeskSettled(L, FALSE, TsErrBackend)
    ELSE IF ~JsonParsable(ResponseText(resp, BackendPayload))
    THEN TsPrintdeskSettled(L, FALSE, TsErrJson)
    ELSE TsPrintdeskPost(L, ResponseText(resp, BackendPayload))

TsPrintdeskPosted(L, resp) ==
    IF resp = "rejected"
    THEN TsPrintdeskSettled(L, FALSE, ErrFetchRejected)
    ELSE IF ~ResponseOk(resp)
    THEN TsPrintdeskSettled(L, FALSE, ErrLocalPrintdesk)
    ELSE TsPrintdeskSettled(L, TRUE, Undef)

TsHasBeastConfig(options) == options.present /\ Truthy(options.printerKey)

TsAuto(L) == IF TsHasBeastConfig(L.beastOpts) THEN TsBeastPrint(L) ELSE TsAutoLegacy(L)

TsPrint(options, prev) ==
    LET L == [IdleFrame EXCEPT
                !.options = options,
                !.given = options,
                !.prevDebugConfig = prev,
                !.strategy = IF IsNullish(options.strategy) THEN "auto" ELSE options.strategy,
                !.legacyOpts = options.legacy,
                !.beastOpts = options.beast,
                !.printdeskOpts = options.printdesk]
    IN  IF L.strategy = "legacy"
        THEN ReturnLegacyPrint(L)
        ELSE IF L.strategy = "beast"
        THEN TsBeastPrint(L)
        ELSE IF L.strategy = "printdesk"
        THEN TsPrintdeskPrint(L)
        ELSE TsAuto(L)

(***************************************************************************)
(* The try block of this print is left, and its finally block runs, when   *)
(* print returns the adapter's promise (the explicit strategies and auto's *)
(* legacyPrint) or, where it awaits (auto's beastPrint), when that settles.*)
(***************************************************************************)
TsLeftTry(L) == L.strategy # "auto" \/ L.pc \in Settled

TsFinally(L, config, inTry) ==
    IF inTry /\ TsLeftTry(L) THEN L.prevDebugConfig ELSE config

TsCommit(c, L, config, inTry) ==
    /\ call' = [call EXCEPT ![c] = L]
    /\ debugConfig' = TsFinally(L, config, inTry)

TsRun(c, L, config, inTry) ==
    IF L.pc = "legacyPrint"
    THEN \E env \in Envs :
            TsCommit(c, LegacySettled(L, TsLegacyPrint(L.legacyOpts, env)), config, inTry)
    ELSE TsCommit(c, L, config, inTry)

TsStartPrint(c) ==
    /\ call[c].pc = "idle"
    /\ NoOtherCall(c)
    /\ \E options \in TsPrintOptions :
          TsRun(c, TsPrint(options, debugConfig), OverrideDebug(debugConfig, options), TRUE)

TsBeastPostResponse(c) ==
    /\ call[c].pc = "beast_post"
    /\ \E resp \in Responses :
          TsRun(c, TsBeastPosted(call[c], resp), debugConfig, call[c].strategy = "auto")

TsPrintdeskGetResponse(c) ==
    /\ call[c].pc = "printdesk_fetch"
    /\ \E resp \in Responses :
          TsRun(c, TsPrintdeskFetched(call[c], resp), debugConfig, FALSE)

TsPrintdeskPostResponse(c) ==
    /\ call[c].pc = "printdesk_post"
    /\ \E resp \in Responses :
          TsRun(c, TsPrintdeskPosted(call[c], resp), debugConfig, FALSE)

TsNext ==
    \/ ConfigureDebug
    \/ \E c \in OneAtATime :
          \/ TsStartPrint(c)
          \/ TsBeastPostResponse(c)
          \/ TsPrintdeskGetResponse(c)
          \/ TsPrintdeskPostResponse(c)
          \/ Forget(c)

TsSpec == Init /\ [][TsNext]_vars

(***************************************************************************)
(* Reading the histories of a call.                                        *)
(***************************************************************************)
Backends == {"beastPrint", "printdeskPrint", "legacyPrint"}

Events(L, kind, who) ==
    {i \in DOMAIN L.trace : L.trace[i][1] = kind /\ L.trace[i][2] = who}

Called(L, who) == Events(L, "call", who) # {}

Returned(L, who) == Events(L, "return", who) # {}

Threw(L, who) == Events(L, "throw", who) # {}

Warned(L, what) == Events(L, "warn", what) # {}

BackendCalls(L) ==
    {i \in DOMAIN L.trace : L.trace[i][1] = "call" /\ L.trace[i][2] \in Backends}

RenderRequests(L) == {i \in DOMAIN L.net : L.net[i].endpoint = BeastRenderUrl}

(* The code places that await ensureRenderedTemplateHtml (renderFor). *)
RenderStages == {"printdesk", "legacy"}

Rank(who) ==
    CASE who = "beastPrint" -> 1
      [] who = "printdeskPrint" -> 2
      [] who = "legacyPrint" -> 3

(* What the request configures, read from the caller's options. *)
CloudConfigured(o) == o.beast.present /\ Truthy(o.beast.printerKey)

BrowserOptionsExist(o) == o.legacy.present \/ Truthy(o.html) \/ Truthy(o.url)

FallbackRequested(o) == o.fallbackToLegacyOnError = "true"

(***************************************************************************)
(* C1.  strategy 'auto': when the Cloud stage is configured and beastPrint *)
(* resolves, print resolves, and printdeskPrint, legacyPrint and the       *)
(* template render are not invoked at any point of the call.               *)
(***************************************************************************)
C1_CloudSuccessEndsChain ==
    \A c \in Slots :
        LET L == call[c]
        IN  (L.strategy = "auto" /\ CloudConfigured(L.options) /\ Returned(L, "beastPrint"))
            => /\ L.pc = "resolved"
               /\ ~Called(L, "printdeskPrint")
               /\ ~Called(L, "legacyPrint")
               /\ ~Called(L, "renderTemplateToHtml")
               /\ RenderRequests(L) = {}

C1_Witness ==
    \E c \in Slots :
        LET L == call[c]
        IN  /\ L.strategy = "auto"
            /\ Returned(L, "beastPrint")
            /\ L.pc = "resolved"
            /\ L.options.legacy.present
            /\ Truthy(L.options.printdesk.html)

(***************************************************************************)
(* C2.  strategy 'auto': when the Cloud attempt fails and the Agent stage  *)
(* is configured and printdeskPrint succeeds, print resolves, the Cloud    *)
(* error is only logged (a console warning, no rejection), and legacyPrint *)
(* is never invoked.                                                       *)
(***************************************************************************)
C2_AgentSuccessAfterCloudFailure ==
    \A c \in Slots :
        LET L == call[c]
        IN  (L.strategy = "auto" /\ Threw(L, "beastPrint") /\ Returned(L, "printdeskPrint"))
            => /\ L.pc = "resolved"
               /\ L.error = Undef
               /\ Warned(L, "auto: BeastPrint failed")
               /\ ~Called(L, "legacyPrint")

C2_Witness ==
    \E c \in Slots :
        LET L == call[c]
        IN  /\ L.strategy = "auto"
            /\ Threw(L, "beastPrint")
            /\ Returned(L, "printdeskPrint")
            /\ L.pc = "resolved"
            /\ L.options.legacy.present

(***************************************************************************)
(* C3.  strategy 'auto': the backends are attempted in the order Cloud,    *)
(* Agent, Browser; a later backend is called only after every earlier      *)
(* attempted backend has thrown, so no two attempts are in progress at     *)
(* once.                                                                   *)
(***************************************************************************)
C3_AutoOrderSequential ==
    \A c \in Slots :
        LET L == call[c]
        IN  L.strategy = "auto"
            => \A i, j \in BackendCalls(L) :
                  i < j
                  => /\ Rank(L.trace[i][2]) < Rank(L.trace[j][2])
                     /\ \E k \in DOMAIN L.trace :
                           /\ i < k
                           /\ k < j
                           /\ L.trace[k][1] = "throw"
                           /\ L.trace[k][2] = L.trace[i][2]

C3_Witness ==
    \E c \in Slots :
        LET L == call[c]
        IN  /\ L.strategy = "auto"
            /\ Called(L, "beastPrint")
            /\ Called(L, "printdeskPrint")
            /\ Called(L, "legacyPrint")
            /\ L.pc \in Settled

(***************************************************************************)
(* C4.  As claimed: within one print call the render request is issued at  *)
(* most once.                                                              *)
(***************************************************************************)
C4_Original ==
    \A c \in Slots : Cardinality(RenderRequests(call[c])) <= 1

(***************************************************************************)
(* C4, amended.  Within one print call no render request is issued once a  *)
(* render has returned: a later stage that needs the HTML reuses the       *)
(* memoized result.  Two render requests of one call are separated by the  *)
(* failure of the first, and a call issues at most two.                    *)
(***************************************************************************)
C4_RenderMemoizedAfterSuccess ==
    \A c \in Slots :
        LET L == call[c]
            calls == Events(L, "call", "renderTemplateToHtml")
        IN  /\ \A r \in Events(L, "return", "renderTemplateToHtml") :
                  \A i \in calls : i < r
            /\ \A i, j \in calls :
                  i < j => \E k \in Events(L, "throw", "renderTemplateToHtml") :
                              i < k /\ k < j
            /\ Cardinality(RenderRequests(L)) = Cardinality(calls)
            /\ Cardinality(RenderRequests(L)) <= Cardinality(RenderStages)
            /\ (/\ L.strategy = "auto"
                /\ Called(L, "legacyPrint")
                /\ Truthy(L.renderedTemplateHtml)
                /\ ~Truthy(L.options.legacy.html)
                /\ ~Truthy(L.options.html))
               => L.legacyOpts.html = L.renderedTemplateHtml

C4_Witness ==
    \E c \in Slots :
        LET L == call[c]
        IN  /\ L.strategy = "auto"
            /\ Returned(L, "renderTemplateToHtml")
            /\ Threw(L, "printdeskPrint")
            /\ Called(L, "legacyPrint")
            /\ L.printdeskOpts.html = RenderedHtml
            /\ L.legacyOpts.html = RenderedHtml
            /\ Cardinality(RenderRequests(L)) = 1

(***************************************************************************)
(* C5.  strategy 'auto' with nothing configured (no cloud printer key, no  *)
(* agent html/url, no browser options, no shared html/url): print rejects  *)
(* with the no-usable-configuration error, and the call issues no fetch    *)
(* and calls no adapter.                                                   *)
(***************************************************************************)
NothingConfigured(o) ==
    /\ ~CloudConfigured(o)
    /\ ~Truthy(o.printdesk.html)
    /\ ~Truthy(o.printdesk.url)
    /\ ~BrowserOptionsExist(o)

C5_NothingConfiguredRejects ==
    \A c \in Slots :
        LET L == call[c]
        IN  (L.strategy = "auto" /\ NothingConfigured(L.options))
            => /\ L.pc = "rejected"
               /\ L.error = ErrNoUsableConfig
               /\ L.net = <<>>
               /\ L.trace = <<>>

C5_Witness ==
    \E c \in Slots :
        LET L == call[c]
        IN  /\ L.strategy = "auto"
            /\ NothingConfigured(L.options)
            /\ L.options.beast.present
            /\ L.options.printdesk.present
            /\ L.pc = "rejected"

(***************************************************************************)
(* C6.  As claimed: strategy 'auto' rejects with the no-usable-            *)
(* configuration error only in calls in which no backend adapter was       *)
(* attempted.                                                              *)
(***************************************************************************)
C6_NoUsableConfigOnlyWithoutAttempt ==
    \A c \in Slots :
        LET L == call[c]
        IN  (L.strategy = "auto" /\ L.pc = "rejected" /\ L.error = ErrNoUsableConfig)
            => BackendCalls(L) = {}

(***************************************************************************)
(* C7.  With one call at a time and configureDebug only between calls: a   *)
(* call saves the debug configuration current when it starts, and in the   *)
(* state in which it has settled (on every strategy and exit path) the     *)
(* debug configuration is again the saved one.                             *)
(***************************************************************************)
C7_DebugRestored ==
    [][\A c \in Slots :
          /\ (call[c].pc = "idle" /\ call'[c].pc # "idle")
             => call'[c].prevDebugConfig = debugConfig
          /\ (call[c].pc # "idle" /\ call'[c].pc # "idle")
             => call'[c].prevDebugConfig = call[c].prevDebugConfig
          /\ call'[c].pc \in Settled
             => debugConfig' = call'[c].prevDebugConfig]_vars

C7_Witness ==
    \E c \in Slots :
        LET L == call[c]
        IN  /\ L.pc \in Settled
            /\ L.options.debug = "true"
            /\ ~L.prevDebugConfig.enabled
            /\ Warned(L, "fallbackToLegacyOnError")
            /\ ~debugConfig.enabled

(***************************************************************************)
(* C8.  As claimed: strategy 'beast' with a missing or empty printer key   *)
(* rejects with the configuration error and issues no fetch, whatever the  *)
(* other request fields are.                                               *)
(***************************************************************************)
C8_Original ==
    \A c \in Slots :
        LET L == call[c]
        IN  (L.strategy = "beast" /\ ~Truthy(L.options.beast.printerKey))
            => /\ L.pc = "rejected"
               /\ L.error \in {ErrNoBeastOptions, ErrPrinterKey}
               /\ L.net = <<>>

(***************************************************************************)
(* C8, amended.  strategy 'beast' with a missing or empty printer key:     *)
(* beastPrint throws the configuration error and the call issues no fetch. *)
(* print rejects with that error unless fallbackToLegacyOnError is true    *)
(* and browser options exist; then legacyPrint is called and print's       *)
(* outcome is legacyPrint's.                                               *)
(***************************************************************************)
C8_MissingKeyNoFetch ==
    \A c \in Slots :
        LET L == call[c]
        IN  (L.strategy = "beast" /\ ~Truthy(L.options.beast.printerKey))
            => /\ L.net = <<>>
               /\ L.pc \in Settled
               /\ \E t \in Events(L, "throw", "beastPrint") :
                     L.trace[t][3] \in {ErrNoBeastOptions, ErrPrinterKey}
               /\ IF FallbackRequested(L.options) /\ BrowserOptionsExist(L.options)
                  THEN /\ Called(L, "legacyPrint")
                       /\ L.pc = "resolved" <=> Returned(L, "legacyPrint")
                       /\ L.pc = "rejected"
                          => \E t \in Events(L, "throw", "legacyPrint") :
                                L.error = L.trace[t][3]
                  ELSE /\ L.pc = "rejected"
                       /\ L.error \in {ErrNoBeastOptions, ErrPrinterKey}
                       /\ ~Called(L, "legacyPrint")

C8_Witness ==
    \E c \in Slots :
        LET L == call[c]
        IN  /\ L.strategy = "beast"
            /\ L.options.beast.printerKey = ""
            /\ Truthy(L.options.beast.templateId)
            /\ L.options.legacy.present
            /\ L.pc = "rejected"
            /\ L.error = ErrPrinterKey

(***************************************************************************)
(* C9.  strategy 'beast' or 'printdesk' whose adapter call throws: when    *)
(* fallbackToLegacyOnError is true and browser options exist (given, or    *)
(* derived from the shared html/url), legacyPrint is called exactly once,  *)
(* after the failure, and print's outcome is legacyPrint's; otherwise      *)
(* print rejects with the adapter's error and legacyPrint is never called. *)
(***************************************************************************)
AdapterOf(L) == IF L.strategy = "beast" THEN "beastPrint" ELSE "printdeskPrint"

C9_ExplicitFallback ==
    \A c \in Slots :
        LET L == call[c]
            thrown == Events(L, "throw", AdapterOf(L))
            legacyCalls == Events(L, "call", "legacyPrint")
        IN  (L.strategy \in {"beast", "printdesk"} /\ thrown # {})
            => IF FallbackRequested(L.options) /\ BrowserOptionsExist(L.options)
               THEN /\ Cardinality(legacyCalls) = 1
                    /\ \A i \in legacyCalls : \A t \in thrown : t < i
                    /\ L.pc \in Settled
                    /\ L.pc = "resolved" <=> Returned(L, "legacyPrint")
                    /\ L.pc = "rejected"
                       => \E t \in Events(L, "throw", "legacyPrint") :
                             L.error = L.trace[t][3]
               ELSE /\ L.pc = "rejected"
                    /\ \E t \in thrown : L.error = L.trace[t][3]
                    /\ legacyCalls = {}

C9_Witness ==
    \E c \in Slots :
        LET L == call[c]
        IN  /\ L.strategy = "printdesk"
            /\ Threw(L, "printdeskPrint")
            /\ ~L.options.legacy.present
            /\ FallbackRequested(L.options)
            /\ Returned(L, "legacyPrint")
            /\ L.pc = "resolved"

(***************************************************************************)
(* C10.  As claimed: when strategy 'beast' or 'printdesk' fails and print  *)
(* falls back to legacyPrint, and the browser options have no html while a *)
(* cloud templateId is configured, the template is rendered before         *)
(* legacyPrint is called and the rendered HTML is the browser's html.      *)
(***************************************************************************)
C10_FallbackRendersTemplate ==
    \A c \in Slots :
        LET L == call[c]
        IN  (/\ L.strategy \in {"beast", "printdesk"}
             /\ Warned(L, "fallbackToLegacyOnError")
             /\ Called(L, "legacyPrint")
             /\ ~Truthy(L.options.legacy.html)
             /\ ~Truthy(L.options.html)
             /\ Truthy(L.options.beast.templateId))
            => /\ \E i \in Events(L, "call", "renderTemplateToHtml") :
                     \A j \in Events(L, "call", "legacyPrint") : i < j
               /\ Truthy(L.renderedTemplateHtml)
                  => L.legacyOpts.html = L.renderedTemplateHtml

(***************************************************************************)
(* C11.  strategy 'auto': every throw of beastPrint, of printdeskPrint and *)
(* of the render made for the Agent stage is caught and logged (the next   *)
(* event is a console warning), and when print rejects, the error is the   *)
(* one thrown last in the Browser stage (by legacyPrint, or by the render  *)
(* made for it) or it is the no-usable-configuration error.                *)
(***************************************************************************)
LastEvent(L) == L.trace[Len(L.trace)]

ThrownInBrowserStage(L) ==
    /\ L.trace # <<>>
    /\ LastEvent(L)[1] = "throw"
    /\ LastEvent(L)[3] = L.error
    /\ \/ LastEvent(L)[2] = "legacyPrint"
       \/ LastEvent(L)[2] = "renderTemplateToHtml" /\ L.renderFor = "legacy"

CaughtAndLogged(L, t) ==
    /\ t < Len(L.trace)
    /\ L.trace[t + 1][1] = "warn"
    /\ L.trace[t + 1][3] = L.trace[t][3]

C11_AutoRejectsOnlyFromBrowserStage ==
    \A c \in Slots :
        LET L == call[c]
        IN  L.strategy = "auto"
            => /\ \A t \in Events(L, "throw", "beastPrint") : CaughtAndLogged(L, t)
               /\ \A t \in Events(L, "throw", "printdeskPrint") : CaughtAndLogged(L, t)
               /\ \A t \in Events(L, "throw", "renderTemplateToHtml") :
                     L.trace[t - 1] = <<"call", "renderTemplateToHtml", "printdesk">>
                     => CaughtAndLogged(L, t)
               /\ L.pc = "rejected"
                  => \/ ThrownInBrowserStage(L)
                     \/ /\ L.error = ErrNoUsableConfig
                        /\ ~Called(L, "legacyPrint")
                        /\ ~ThrownInBrowserStage(L)

C11_Witness ==
    \E c \in Slots :
        LET L == call[c]
        IN  /\ L.strategy = "auto"
            /\ Threw(L, "beastPrint")
            /\ Threw(L, "printdeskPrint")
            /\ Threw(L, "legacyPrint")
            /\ L.pc = "rejected"
            /\ L.error = LastEvent(L)[3]

(***************************************************************************)
(* C12.  As claimed: a configuration error thrown by beastPrint or         *)
(* printdeskPrint is print's rejection and no backend is called after it,  *)
(* on every strategy and for every value of fallbackToLegacyOnError.       *)
(***************************************************************************)
Adapters == {"beastPrint", "printdeskPrint"}

ConfigurationThrows(L) ==
    {t \in DOMAIN L.trace :
        /\ L.trace[t][1] = "throw"
        /\ L.trace[t][2] \in Adapters
        /\ L.trace[t][3] \in ConfigurationErrors}

CallsAfter(L, t) == {i \in BackendCalls(L) : t < i}

C12_Original ==
    \A c \in Slots :
        LET L == call[c]
        IN  \A t \in ConfigurationThrows(L) :
               /\ L.pc = "rejected"
               /\ L.error = L.trace[t][3]
               /\ CallsAfter(L, t) = {}

(***************************************************************************)
(* C12, amended.  A configuration error thrown by beastPrint or            *)
(* printdeskPrint is handled like any other failure of the adapter.  With  *)
(* strategy 'beast' or 'printdesk' it is print's rejection unless          *)
(* fallbackToLegacyOnError is true and browser options exist; then         *)
(* legacyPrint is called once and nothing else.  With strategy 'auto' it   *)
(* is caught and logged, the Agent stage is attempted after a Cloud error  *)
(* when it is configured, and the error is not print's rejection.  The     *)
(* adapter that threw is never called again.                               *)
(***************************************************************************)
C12_ConfigErrorHandledAsFailure ==
    \A c \in Slots :
        LET L == call[c]
        IN  \A t \in ConfigurationThrows(L) :
               /\ \A i \in CallsAfter(L, t) : L.trace[i][2] # L.trace[t][2]
               /\ L.strategy \in {"beast", "printdesk"}
                  => IF FallbackRequested(L.given) /\ BrowserOptionsExist(L.given)
                     THEN /\ Cardinality(CallsAfter(L, t)) = 1
                          /\ \A i \in CallsAfter(L, t) : L.trace[i][2] = "legacyPrint"
                     ELSE /\ L.pc = "rejected"
                          /\ L.error = L.trace[t][3]
                          /\ CallsAfter(L, t) = {}
               /\ L.strategy = "auto"
                  => /\ CaughtAndLogged(L, t)
                     /\ (L.trace[t][2] = "beastPrint" /\ HasPrintdeskConfig(L.printdeskOpts))
                        => /\ t + 2 <= Len(L.trace)
                           /\ L.trace[t + 2][1] = "call"
                           /\ L.trace[t + 2][2] \in {"printdeskPrint", "renderTemplateToHtml"}
                     /\ L.pc = "rejected"
                        => ThrownInBrowserStage(L) \/ L.error = ErrNoUsableConfig

C12_Witness ==
    \E c \in Slots :
        LET L == call[c]
        IN  /\ L.strategy = "auto"
            /\ \E t \in ConfigurationThrows(L) :
                  L.trace[t][2] = "beastPrint" /\ L.trace[t][3] = ErrTemplateId
            /\ Returned(L, "printdeskPrint")
            /\ L.pc = "resolved"

(***************************************************************************)
(* C13.  print never writes to the caller's request: in every state of a   *)
(* call, on every strategy and outcome, the request object and its nested  *)
(* legacy, beast and printdesk objects hold the values they held when      *)
(* print was called; the shared html/url and the rendered template are     *)
(* written to the working copies only.                                     *)
(***************************************************************************)
C13_RequestNotMutated ==
    \A c \in Slots :
        LET L == call[c]
        IN  /\ L.options = L.given
            /\ (L.given.legacy.present /\ L.legacyOpts.html # L.given.legacy.html)
               => L.legacyOpts.html \in {L.given.html, L.renderedTemplateHtml}
            /\ (L.given.printdesk.present /\ L.printdeskOpts.html # L.given.printdesk.html)
               => L.printdeskOpts.html = L.renderedTemplateHtml

C13_Witness ==
    \E c \in Slots :
        LET L == call[c]
        IN  /\ L.pc \in Settled
            /\ L.given.legacy.present
            /\ L.given.printdesk.present
            /\ L.legacyOpts.html = RenderedHtml
            /\ L.printdeskOpts.html = RenderedHtml
            /\ L.printdeskOpts.url = L.given.url
            /\ L.options.legacy.html = Undef
            /\ L.options.printdesk.html = Undef
            /\ L.options.printdesk.url = Undef

(***************************************************************************)
(* C14.  As claimed: each working copy (legacy, printdesk, beast) whose    *)
(* own html or url is absent holds the shared html or url when one is set  *)
(* (beast's html only in html mode), an own non-empty value is kept, and   *)
(* in 'auto' printdesk options given without html receive the shared html, *)
(* so that the Agent stage is entered when the Cloud stage did not succeed.*)
(***************************************************************************)
Lacks(v) == ~Truthy(v)

AgentStageEntered(L) ==
    \/ Called(L, "printdeskPrint")
    \/ \E i \in Events(L, "call", "renderTemplateToHtml") : L.trace[i][3] = "printdesk"

C14_SharedContentInjected ==
    \A c \in Slots :
        LET L == call[c]
            o == L.given
        IN  L.pc # "idle"
            => /\ (o.legacy.present /\ Lacks(o.legacy.html) /\ Truthy(o.html))
                  => L.legacyOpts.html = o.html
               /\ (o.legacy.present /\ Lacks(o.legacy.url) /\ Truthy(o.url))
                  => L.legacyOpts.url = o.url
               /\ (o.printdesk.present /\ Lacks(o.printdesk.html) /\ Truthy(o.html))
                  => L.printdeskOpts.html = o.html
               /\ (o.printdesk.present /\ Lacks(o.printdesk.url) /\ Truthy(o.url))
                  => L.printdeskOpts.url = o.url
               /\ (o.beast.present /\ Lacks(o.beast.html) /\ Truthy(o.html)
                     /\ o.beast.mode = "html")
                  => L.beastOpts.html = o.html
               /\ (o.beast.present /\ Lacks(o.beast.url) /\ Truthy(o.url))
                  => L.beastOpts.url = o.url
               /\ (o.legacy.present /\ Truthy(o.legacy.url)) => L.legacyOpts.url = o.legacy.url
               /\ (o.printdesk.present /\ Truthy(o.printdesk.html))
                  => L.printdeskOpts.html = o.printdesk.html
               /\ (o.beast.present /\ Truthy(o.beast.html)) => L.beastOpts.html = o.beast.html
               /\ (/\ L.strategy = "auto"
                   /\ L.pc \in Settled
                   /\ ~Returned(L, "beastPrint")
                   /\ o.printdesk.present
                   /\ Truthy(o.html))
                  => AgentStageEntered(L)

(***************************************************************************)
(* C15.  As claimed: strategy 'auto' with a cloud printer key, no          *)
(* templateId and no mode, and an html or url of its own or shared: the    *)
(* Cloud stage runs in html mode, that is beastPrint does not fail for a   *)
(* missing templateId and the first request of the call is the POST of the *)
(* html as content to the cloud print endpoint, or the GET of the url that *)
(* provides it.                                                            *)
(***************************************************************************)
HtmlOrUrlAvailable(o) ==
    Truthy(o.beast.html) \/ Truthy(o.beast.url) \/ Truthy(o.html) \/ Truthy(o.url)

C15_ModeInferredAsHtml ==
    \A c \in Slots :
        LET L == call[c]
            o == L.given
        IN  (/\ L.strategy = "auto"
             /\ CloudConfigured(o)
             /\ Lacks(o.beast.templateId)
             /\ IsNullish(o.beast.mode)
             /\ HtmlOrUrlAvailable(o))
            => /\ Called(L, "beastPrint")
               /\ \A t \in Events(L, "throw", "beastPrint") : L.trace[t][3] # ErrTemplateId
               /\ L.net # <<>>
               /\ \/ /\ L.net[1].endpoint = BeastPrintUrl
                     /\ L.net[1].mode = "html"
                     /\ L.net[1].content \in {o.beast.html, o.html}
                  \/ /\ L.net[1].method = "GET"
                     /\ L.net[1].endpoint \in {o.beast.url, o.url}

(***************************************************************************)
(* C16.  beastPrint called with a non-empty printer key and a non-empty    *)
(* templateId, whatever mode, html and url are: the only request of the    *)
(* call is the POST to the cloud print endpoint of a template body (mode   *)
(* 'template', the templateId, widthMm or 80 by default, data or {} by     *)
(* default, the printer); options.url is not fetched and no html content   *)
(* is sent.                                                                *)
(***************************************************************************)
DirectCall(L) == L.pc # "idle" /\ L.strategy = Undef

C16_TemplateIdWins ==
    \A c \in Slots :
        LET L == call[c]
            options == L.beastOpts
        IN  (/\ DirectCall(L)
             /\ Truthy(options.printerKey)
             /\ Truthy(options.templateId))
            => /\ Len(L.net) = 1
               /\ L.net[1].endpoint = BeastPrintUrl
               /\ L.net[1].method = "POST"
               /\ L.net[1].mode = "template"
               /\ L.net[1].templateId = options.templateId
               /\ L.net[1].widthMm = IF options.widthMm = Undef THEN "80" ELSE options.widthMm
               /\ L.net[1].data = IF options.data = Undef THEN "{}" ELSE options.data
               /\ L.net[1].printerKey = options.printerKey
               /\ L.net[1].content = Undef
               /\ L.html = Undef

C16_Witness ==
    \E c \in Slots :
        LET L == call[c]
        IN  /\ DirectCall(L)
            /\ L.beastOpts.mode = "html"
            /\ Truthy(L.beastOpts.html)
            /\ Truthy(L.beastOpts.url)
            /\ L.beastOpts.widthMm = Undef
            /\ L.pc = "resolved"
            /\ L.net[1].mode = "template"
            /\ L.net[1].widthMm = "80"

(***************************************************************************)
(* C17.  beastPrint called with mode 'template', or with no mode, and no   *)
(* templateId: the call rejects with a configuration error (the missing    *)
(* templateId when the printer key is given) and issues no request, also   *)
(* when html or url is present.                                            *)
(***************************************************************************)
TemplateModeWithoutId(options) ==
    /\ options.present
    /\ options.mode \in {Undef, "template"}
    /\ Lacks(options.templateId)

AgentStageIffConfigured(L) ==
    /\ AgentStageEntered(L)
       => /\ ~Returned(L, "beastPrint")
          /\ HasPrintdeskConfig(L.printdeskOpts)
          /\ Truthy(L.given.printdesk.html) \/ Truthy(L.printdeskOpts.url)
    /\ (/\ L.pc \in Settled
        /\ ~Returned(L, "beastPrint")
        /\ HasPrintdeskConfig(L.printdeskOpts))
       => AgentStageEntered(L)

RenderedForAgent(L) ==
    /\ Called(L, "printdeskPrint")
    /\ Lacks(L.given.printdesk.html)
    /\ BeastHasTemplate(L)

C18_Original ==
    \A c \in Slots :
        LET L == call[c]
        IN  L.strategy = "auto"
            => /\ AgentStageIffConfigured(L)
               /\ RenderedForAgent(L)
                  => /\ \E r \in Events(L, "return", "renderTemplateToHtml") :
                           \A i \in Events(L, "call", "printdeskPrint") : r < i
                     /\ L.printdeskOpts.html = L.renderedTemplateHtml

(***************************************************************************)
(* C18, amended.  strategy 'auto' enters the Agent stage iff the Cloud     *)
(* stage did not succeed and the printdesk working copy has a non-empty    *)
(* html or url.  When it is entered without html and with a beast          *)
(* templateId, the template is rendered before printdeskPrint is called,   *)
(* and a non-empty rendered html is the copy's html and the content        *)
(* posted to the agent; when the render returns an empty body nothing is   *)
(* injected and printdeskPrint fetches the copy's url.                     *)
(***************************************************************************)
C18_AgentStageEntry ==
    \A c \in Slots :
        LET L == call[c]
        IN  L.strategy = "auto"
            => /\ AgentStageIffConfigured(L)
               /\ RenderedForAgent(L)
                  => /\ \E r \in Events(L, "return", "renderTemplateToHtml") :
                           \A i \in Events(L, "call", "printdeskPrint") : r < i
                     /\ IF Truthy(L.renderedTemplateHtml)
                        THEN /\ L.printdeskOpts.html = L.renderedTemplateHtml
                             /\ \A i \in DOMAIN L.net :
                                   L.net[i].endpoint = DefaultLocalUrl
                                   => L.net[i].content = L.renderedTemplateHtml
                             /\ \A i \in DOMAIN L.net :
                                   L.net[i].endpoint # L.printdeskOpts.url
                        ELSE /\ L.printdeskOpts.html = Undef
                             /\ \E i \in DOMAIN L.net :
                                   /\ L.net[i].endpoint = L.printdeskOpts.url
                                   /\ L.net[i].method = "GET"

C18_Witness ==
    \E c \in Slots :
        LET L == call[c]
        IN  /\ L.strategy = "auto"
            /\ Threw(L, "beastPrint")
            /\ RenderedForAgent(L)
            /\ L.printdeskOpts.html = RenderedHtml
            /\ Returned(L, "printdeskPrint")
            /\ \E i \in DOMAIN L.net :
                  L.net[i].endpoint = DefaultLocalUrl /\ L.net[i].content = RenderedHtml

(***************************************************************************)
(* C19.  strategy 'auto' enters the Browser stage (the render made for it, *)
(* or legacyPrint) iff neither beastPrint nor printdeskPrint returned and  *)
(* browser options exist, given or derived from the shared html/url; once  *)
(* it is entered, print resolves iff legacyPrint returns and rejects with  *)
(* the error thrown in the stage, and no other backend is called after.    *)
(***************************************************************************)
BrowserStageEntered(L) ==
    \/ Called(L, "legacyPrint")
    \/ \E i \in Events(L, "call", "renderTemplateToHtml") : L.trace[i][3] = "legacy"

C19_BrowserStageEntry ==
    \A c \in Slots :
        LET L == call[c]
        IN  L.strategy = "auto"
            => /\ BrowserStageEntered(L)
                  => /\ ~Returned(L, "beastPrint")
                     /\ ~Returned(L, "printdeskPrint")
                     /\ BrowserOptionsExist(L.given)
                     /\ L.legacyOpts.present
                     /\ L.pc \in Settled \cup {"render"}
                     /\ L.pc = "render" => L.renderFor = "legacy"
                     /\ L.pc = "resolved" <=> Returned(L, "legacyPrint")
                     /\ L.pc = "rejected" => ThrownInBrowserStage(L)
                     /\ Cardinality(Events(L, "call", "legacyPrint")) <= 1
                     /\ \A i \in Events(L, "call", "legacyPrint") : CallsAfter(L, i) = {}
               /\ (/\ L.pc \in Settled
                   /\ ~Returned(L, "beastPrint")
                   /\ ~Returned(L, "printdeskPrint")
                   /\ BrowserOptionsExist(L.given))
                  => BrowserStageEntered(L)

C19_Witness ==
    \E c \in Slots :
        LET L == call[c]
        IN  /\ L.strategy = "auto"
            /\ Threw(L, "beastPrint")
            /\ Threw(L, "printdeskPrint")
            /\ ~L.given.legacy.present
            /\ Returned(L, "legacyPrint")
            /\ L.pc = "resolved"

(***************************************************************************)
(* C20.  strategy 'legacy': beastPrint and printdeskPrint are never        *)
(* called and legacyPrint is called at most once; when print rejects, the  *)
(* error is the one thrown last by legacyPrint or by the render made for   *)
(* it, nothing is called after it and no fallback is logged, whatever      *)
(* fallbackToLegacyOnError is.                                             *)
(***************************************************************************)
C20_LegacyStrategyNoFallback ==
    \A c \in Slots :
        LET L == call[c]
        IN  L.strategy = "legacy"
            => /\ ~Called(L, "beastPrint")
               /\ ~Called(L, "printdeskPrint")
               /\ Cardinality(Events(L, "call", "legacyPrint")) <= 1
               /\ \A i \in DOMAIN L.net : L.net[i].endpoint = BeastRenderUrl
               /\ \A i \in DOMAIN L.trace : L.trace[i][1] # "warn"
               /\ L.pc = "rejected"
                  => /\ ThrownInBrowserStage(L)
                     /\ Cardinality({i \in DOMAIN L.trace : L.trace[i][1] = "throw"}) = 1
               /\ L.pc = "resolved" <=> Returned(L, "legacyPrint")

C20_Witness ==
    \E c \in Slots :
        LET L == call[c]
        IN  /\ L.strategy = "legacy"
            /\ FallbackRequested(L.given)
            /\ CloudConfigured(L.given)
            /\ Truthy(L.given.printdesk.html)
            /\ Threw(L, "legacyPrint")
            /\ L.pc = "rejected"

(***************************************************************************)
(* C21.  As claimed: with strategy 'legacy' or 'printdesk' the template    *)
(* render is called exactly when the selected backend has neither html nor *)
(* url after the shared-field injection and a beast templateId is          *)
(* configured.                                                             *)
(***************************************************************************)
SelectedCopy(L) ==
    IF L.strategy = "legacy"
    THEN [present |-> NormalizeLegacy(L.given).present,
          html |-> NormalizeLegacy(L.given).html,
          url |-> NormalizeLegacy(L.given).url]
    ELSE NormalizePrintdesk(L.given)

WorkingHtml(L) ==
    IF L.strategy = "legacy" THEN L.legacyOpts.html ELSE L.printdeskOpts.html

C21_Original ==
    \A c \in Slots :
        LET L == call[c]
        IN  L.strategy \in {"legacy", "printdesk"}
            => (Called(L, "renderTemplateToHtml")
                <=> /\ Lacks(SelectedCopy(L).html)
                    /\ Lacks(SelectedCopy(L).url)
                    /\ Truthy(L.given.beast.templateId))

(***************************************************************************)
(* C21, amended.  With strategy 'legacy' or 'printdesk' the template       *)
(* render is called exactly when options for the selected backend exist    *)
(* (given, or for legacy derived from the shared html/url), their html is  *)
(* empty after the shared-field injection, whether or not they have a url, *)
(* and a beast templateId is configured; it is called once, before the     *)
(* adapter, and a non-empty result is the backend's html.  When the        *)
(* backend has html, or no options for it exist, no render request is      *)
(* issued.                                                                 *)
(***************************************************************************)
RenderNeeded(L) ==
    /\ SelectedCopy(L).present
    /\ Lacks(SelectedCopy(L).html)
    /\ Truthy(L.given.beast.templateId)

C21_ExplicitRender ==
    \A c \in Slots :
        LET L == call[c]
            selected == IF L.strategy = "legacy" THEN "legacyPrint" ELSE "printdeskPrint"
        IN  L.strategy \in {"legacy", "printdesk"}
            => /\ Called(L, "renderTemplateToHtml") <=> RenderNeeded(L)
               /\ Cardinality(RenderRequests(L)) = IF RenderNeeded(L) THEN 1 ELSE 0
               /\ \A i \in Events(L, "call", "renderTemplateToHtml") :
                     \A j \in Events(L, "call", selected) : i < j
               /\ Returned(L, "renderTemplateToHtml")
                  => /\ Called(L, selected)
                     /\ WorkingHtml(L) = IF Truthy(L.renderedTemplateHtml)
                                         THEN L.renderedTemplateHtml
                                         ELSE SelectedCopy(L).html
               /\ ~RenderNeeded(L) => WorkingHtml(L) = SelectedCopy(L).html

C21_Witness ==
    \E c \in Slots :
        LET L == call[c]
        IN  /\ L.strategy = "legacy"
            /\ Truthy(L.given.legacy.url)
            /\ Returned(L, "renderTemplateToHtml")
            /\ L.legacyOpts.html = RenderedHtml
            /\ Called(L, "legacyPrint")
            /\ L.pc \in Settled

(***************************************************************************)
(* C22.  As claimed: printdeskPrint posts {payload: {html, pdfOptions,     *)
(* printer}} to localUrl, where pdfOptions is the documented default set   *)
(* overridden per top-level key by the caller's pdfOptions.                *)
(***************************************************************************)
DefaultPdfOptions ==
    [present |-> TRUE, margins |-> "{marginType: 0}",
     pageSize |-> "{height: 90000, width: 90000}", color |-> "false", copies |-> "1",
     scaleFactor |-> "100", landscape |-> "false", dpi |-> "300"]

MergedPdfOptions(own) ==
    [k \in DOMAIN DefaultPdfOptions |->
        IF k # "present" /\ own[k] # Undef THEN own[k] ELSE DefaultPdfOptions[k]]

AgentPosts(L) == {i \in DOMAIN L.net : L.net[i].method = "POST"}

C22_PayloadWithMergedPdfOptions ==
    \A c \in Slots :
        LET L == call[c]
        IN  (DirectCall(L) /\ Called(L, "printdeskPrint"))
            => \A i \in AgentPosts(L) :
                  /\ L.net[i].endpoint = LocalUrl(L.printdeskOpts)
                  /\ L.net[i].envelope = "{payload}"
                  /\ L.net[i].content = L.html
                  /\ L.net[i].pdfOptions = MergedPdfOptions(L.printdeskOpts.pdfOptions)
                  /\ L.net[i].printerName = L.printdeskOpts.printerName

(***************************************************************************)
(* C23.  As claimed: legacyPrint given options with both html and url      *)
(* takes an HTML branch (hidden iframe or popup) and does not open or load *)
(* the url; a URL branch is taken only when html is absent.                *)
(***************************************************************************)
UrlPaths == {"url", "url popup", "url new tab", "url iframe"}

HtmlPaths == {"html", "html popup", "html iframe"}

DirectLegacyCall(L) == DirectCall(L) /\ Called(L, "legacyPrint")

C23_HtmlPreferredOverUrl ==
    \A c \in Slots :
        LET L == call[c]
        IN  DirectLegacyCall(L)
            => /\ (Truthy(L.legacyOpts.html) /\ Truthy(L.legacyOpts.url))
                  => L.legacyPath \in HtmlPaths
               /\ L.legacyPath \in UrlPaths => Lacks(L.legacyOpts.html)

(***************************************************************************)
(* C24.  As claimed: legacyPrint with a cross-origin url and no popup      *)
(* requested, in a browser, always resolves after asking for a new tab: no *)
(* hidden iframe, no programmatic print, no rejection.                     *)
(***************************************************************************)
CrossOriginUrlNoPopup(L) ==
    /\ DirectLegacyCall(L)
    /\ L.env.window
    /\ L.env.document
    /\ Truthy(L.legacyOpts.url)
    /\ Lacks(L.legacyOpts.popup)
    /\ ~L.env.sameOrigin

NewTabOnly(L) ==
    /\ L.legacyPath = "url new tab"
    /\ CallsWindowOpen(L.legacyPath)
    /\ WarnsCrossOrigin(L.legacyPath)
    /\ ~CreatesFrame(L.legacyPath)
    /\ ~PrintsSynchronously(L.legacyPath)
    /\ L.onload = "none"

C24_Original ==
    \A c \in Slots :
        LET L == call[c]
        IN  CrossOriginUrlNoPopup(L) => NewTabOnly(L) /\ L.pc = "resolved"

(***************************************************************************)
(* C24, amended.  legacyPrint with a cross-origin url and no popup         *)
(* requested, in a browser, logs the warning and asks for a new tab with   *)
(* window.open; it creates no hidden iframe and registers no print         *)
(* callback.  It resolves when window.open returns a window and rejects    *)
(* with the popup-blocked error when window.open returns null.             *)
(***************************************************************************)
C24_CrossOriginOpensNewTab ==
    \A c \in Slots :
        LET L == call[c]
        IN  CrossOriginUrlNoPopup(L)
            => /\ NewTabOnly(L)
               /\ IF L.env.open
                  THEN L.pc = "resolved" /\ L.error = Undef
                  ELSE L.pc = "rejected" /\ L.error = ErrPopupBlocked

C24_Witness ==
    \E c \in Slots :
        LET L == call[c]
        IN  /\ CrossOriginUrlNoPopup(L)
            /\ Truthy(L.legacyOpts.html)
            /\ L.env.contentWindow
            /\ L.env.print
            /\ L.pc = "resolved"
            /\ L.legacyPath = "url new tab"

(***************************************************************************)
(* C25.  legacyPrint settles before any load callback runs, and a load     *)
(* callback never changes the outcome: whatever happens in it (focus or    *)
(* print throwing, the iframe's window missing) is logged with             *)
(* console.error and the call stays resolved.  A rejected legacyPrint has  *)
(* registered no callback and its error is one of the setup failures: no   *)
(* window.print, no browser context, window.open returning null, no        *)
(* contentWindow of the new iframe.                                        *)
(***************************************************************************)
SetupFailures ==
    {ErrWindowPrint, ErrNonBrowser, ErrNoDocument, ErrPopupBlocked, ErrContentWindow}

LoadFailures == {"focus or print threw", "no contentWindow"}

C25_LoadCallbackFailuresOnlyLogged ==
    [][\A c \in Slots :
          /\ (call[c].pc \in Settled /\ call'[c].pc # "idle")
             => /\ call'[c].pc = call[c].pc
                /\ call'[c].error = call[c].error
          /\ (/\ DirectLegacyCall(call[c])
              /\ call'[c].pc # "idle"
              /\ call'[c].onload # call[c].onload)
             => /\ call[c].pc = "resolved"
                /\ call[c].onload = "pending"
                /\ call'[c].onload \in LoadFailures
                   <=> /\ Len(call'[c].trace) = Len(call[c].trace) + 1
                       /\ LastEvent(call'[c])[1] = "console.error"
          /\ (DirectLegacyCall(call'[c]) /\ call'[c].pc = "rejected")
             => /\ call'[c].error \in SetupFailures
                /\ call'[c].onload = "none"]_vars

C25_Witness ==
    \E c \in Slots :
        LET L == call[c]
        IN  /\ DirectLegacyCall(L)
            /\ L.pc = "resolved"
            /\ L.error = Undef
            /\ L.legacyPath = "url iframe"
            /\ L.onload = "no contentWindow"
            /\ LastEvent(L)[1] = "console.error"

(***************************************************************************)
(* C26.  Overlapping print calls with debug overrides: once all of them    *)
(* have settled, the debug configuration is the one that was in force      *)
(* before the first of them (slot 1) started.                              *)
(***************************************************************************)
AllSettled ==
    /\ \A c \in Slots : ~Suspended(call[c])
    /\ call[1].pc \in Settled

C26_DebugRestoredAfterOverlap ==
    (AllSettled /\ call[2].pc \in Settled) => debugConfig = call[1].prevDebugConfig

(***************************************************************************)
(* C27.  strategy 'auto': a template render that fails while the Agent     *)
(* stage is prepared is caught and logged like a failure of printdeskPrint *)
(* (which is then not called).  print does not reject with the render's    *)
(* error: when browser options exist the next thing print does is enter    *)
(* the Browser stage (its own render, or legacyPrint), and only that stage *)
(* can reject; when none exist print rejects with the no-configuration     *)
(* error.                                                                  *)
(***************************************************************************)
AgentRenderThrows(L) ==
    {t \in Events(L, "throw", "renderTemplateToHtml") :
        L.trace[t - 1] = <<"call", "renderTemplateToHtml", "printdesk">>}

EntersBrowserStageAt(L, t) ==
    /\ t \in DOMAIN L.trace
    /\ L.trace[t][1] = "call"
    /\ \/ L.trace[t][2] = "legacyPrint"
       \/ L.trace[t][2] = "renderTemplateToHtml" /\ L.trace[t][3] = "legacy"

C27_AutoRenderFailureFallsThrough ==
    \A c \in Slots :
        LET L == call[c]
        IN  L.strategy = "auto"
            => \A t \in AgentRenderThrows(L) :
                  /\ CaughtAndLogged(L, t)
                  /\ ~Called(L, "printdeskPrint")
                  /\ IF L.legacyOpts.present
                     THEN /\ EntersBrowserStageAt(L, t + 2)
                          /\ L.pc = "rejected" => ThrownInBrowserStage(L)
                     ELSE /\ Len(L.trace) = t + 1
                          /\ L.pc = "rejected"
                          /\ L.error = ErrNoUsableConfig

C27_Witness ==
    \E c \in Slots :
        LET L == call[c]
        IN  /\ L.strategy = "auto"
            /\ AgentRenderThrows(L) # {}
            /\ Returned(L, "legacyPrint")
            /\ L.pc = "resolved"

(***************************************************************************)
(* C28.  strategy 'printdesk' with fallbackToLegacyOnError = true and      *)
(* legacy options present: a failure of the lazy template render, which    *)
(* runs before printdeskPrint is called, also leads to the legacy          *)
(* fallback: legacyPrint is called and print rejects only if legacyPrint   *)
(* throws.                                                                 *)
(***************************************************************************)
FallbackArmed(L) ==
    /\ L.strategy = "printdesk"
    /\ L.fallbackToLegacy
    /\ L.legacyOpts.present

C28_AgentRenderFailureFallsBack ==
    \A c \in Slots :
        LET L == call[c]
        IN  FallbackArmed(L)
            => \A t \in AgentRenderThrows(L) :
                  /\ Called(L, "legacyPrint")
                  /\ L.pc = "rejected" => LastEvent(L)[2] = "legacyPrint"

(***************************************************************************)
(* C29.  One print call invokes each of beastPrint, printdeskPrint and     *)
(* legacyPrint at most once: at most three backend calls under 'auto', at  *)
(* most two under an explicit strategy, and then the first is the selected *)
(* adapter and the second the legacyPrint of the fallback.                 *)
(***************************************************************************)
MaxAttempts(strategy) == IF strategy = "auto" THEN 3 ELSE 2

SelectedAdapter(strategy) ==
    IF strategy = "beast"
    THEN "beastPrint"
    ELSE IF strategy = "printdesk" THEN "printdeskPrint" ELSE "legacyPrint"

AdapterOfCall(L, n) == L.trace[CHOOSE i \in BackendCalls(L) :
                                   Cardinality({j \in BackendCalls(L) : j <= i}) = n][2]

C29_NoAdapterRetried ==
    \A c \in Slots :
        LET L == call[c]
            attempts == Cardinality(BackendCalls(L))
        IN  L.pc # "idle"
            => /\ \A who \in Backends : Cardinality(Events(L, "call", who)) <= 1
               /\ attempts <= MaxAttempts(L.strategy)
               /\ (L.strategy # "auto" /\ attempts >= 1)
                  => AdapterOfCall(L, 1) = SelectedAdapter(L.strategy)
               /\ (L.strategy # "auto" /\ attempts = 2)
                  => AdapterOfCall(L, 2) = "legacyPrint"

C29_Witness ==
    \E c \in Slots :
        LET L == call[c]
        IN  /\ L.strategy = "auto"
            /\ Cardinality(BackendCalls(L)) = 3
            /\ L.pc \in Settled

(***************************************************************************)
(* C30.  When every remote call eventually returns, every print call       *)
(* eventually settles.  A call suspended at a remote call changes only by  *)
(* that call returning: until then it does not settle, starts no later     *)
(* stage and issues no request, and the debug configuration stays as the   *)
(* call left it.                                                           *)
(***************************************************************************)
SuspendedStays(c) ==
    /\ call'[c] = call[c]
    /\ debugConfig' = debugConfig

C30_SettlesIffRemoteCallsReturn ==
    /\ \A c \in Slots : Suspended(call[c]) ~> call[c].pc \in Settled
    /\ [][\A c \in Slots :
             Suspended(call[c]) => SuspendedStays(c) \/ RemoteCallReturns(c)]_vars

C30_Witness ==
    \E c \in Slots :
        LET L == call[c]
        IN  /\ L.strategy = "auto"
            /\ Len(L.net) = 4
            /\ L.pc \in Settled

(***************************************************************************)
(* C31.  print of src/src/index.ts: while a call that carries a debug      *)
(* override has not settled, the debug configuration holds the override,   *)
(* on every strategy.                                                      *)
(***************************************************************************)
C31_OverrideHeldUntilSettled ==
    \A c \in Slots :
        LET L == call[c]
        IN  (Suspended(L) /\ L.given.debug \in {"true", "false"})
            => debugConfig.enabled = (L.given.debug = "true")

(***************************************************************************)
(* C38.  print of src/src/index.ts, strategy 'auto' with printdesk options *)
(* supplied: when beastPrint is not configured or has thrown,              *)
(* printdeskPrint is called, and before any call of legacyPrint.           *)
(***************************************************************************)
CloudStageOver(L) ==
    \/ L.pc # "idle" /\ ~TsHasBeastConfig(L.given.beast)
    \/ Threw(L, "beastPrint")

C38_TsAutoTriesPrintdeskBeforeLegacy ==
    \A c \in Slots :
        LET L == call[c]
        IN  (L.strategy = "auto" /\ L.given.printdesk.present /\ CloudStageOver(L))
            => /\ Called(L, "printdeskPrint")
               /\ \A i \in Events(L, "call", "legacyPrint") :
                     \E j \in Events(L, "call", "printdeskPrint") : j < i

(***************************************************************************)
(* C39.  printdeskPrint of src/src/index.ts: it validates printerId,       *)
(* saleId and printUrl in this order and sends nothing when one is         *)
(* missing; its first request is the GET of printUrl with the query, its   *)
(* second and last the POST to the local agent; and what it posts is the   *)
(* JSON-parsable body of a 2xx answer to the GET, so after a backend error *)
(* or an unparsable body nothing is posted.                                *)
(***************************************************************************)
TsFirstMissing(options) ==
    IF ~options.present
    THEN ErrNoPrintdeskOptions
    ELSE IF ~Truthy(options.printerId)
    THEN TsErrPrinterId
    ELSE IF ~Truthy(options.saleId)
    THEN TsErrSaleId
    ELSE IF ~Truthy(options.printUrl) THEN TsErrPrintUrl ELSE Undef

C39_TsPrintdeskStepsInOrder ==
    \A c \in Slots :
        LET L == call[c]
            options == L.printdeskOpts
        IN  Called(L, "printdeskPrint")
            => /\ Len(L.net) <= 2
               /\ TsFirstMissing(options) # Undef
                  => /\ L.net = <<>>
                     /\ L.pc = "rejected"
                     /\ L.error = TsFirstMissing(options)
               /\ TsFirstMissing(options) = Undef
                  => /\ Len(L.net) >= 1
                     /\ L.net[1].method = "GET"
                     /\ L.net[1].endpoint = options.printUrl
                     /\ L.net[1].data = <<options.printerId, options.saleId, options.sample>>
               /\ Len(L.net) = 2
                  => /\ L.net[2].method = "POST"
                     /\ L.net[2].endpoint = LocalUrl(options)
                     /\ L.net[2].content = BackendPayload
                     /\ JsonParsable(L.net[2].content)
               /\ (L.pc = "rejected" /\ L.error \in {TsErrBackend, TsErrJson})
                  => Len(L.net) = 1
               /\ L.pc = "resolved" => Len(L.net) = 2

C39_Witness ==
    \E c \in Slots :
        LET L == call[c]
        IN  /\ Called(L, "printdeskPrint")
            /\ L.pc = "rejected"
            /\ L.error = TsErrJson
            /\ Len(L.net) = 1

(***************************************************************************)
(* ReconfigureSpec: the application calls configureDebug while a print     *)
(* call is suspended at its network call (at most once per print call; the *)
(* call is recorded in the history of the print call it fell into).        *)
(***************************************************************************)
ReconfigureOptions ==
    OverlapOptions \cup {[o EXCEPT !.debug = Undef] : o \in OverlapOptions}

StartReconfigurable(c) ==
    /\ call[c].pc = "idle"
    /\ NoOtherCall(c)
    /\ \E options \in ReconfigureOptions :
          Run(c, print(options, debugConfig), OverrideDebug(debugConfig, options))

ConfigureDebugDuringCall(c) ==
    /\ Suspended(call[c])
    /\ ~Called(call[c], "configureDebug")
    /\ \E enabled \in BOOLEAN :
          /\ debugConfig' = [debugConfig EXCEPT !.enabled = enabled]
          /\ call' = [call EXCEPT ![c] = Emit(call[c], "call", "configureDebug",
                                               IF enabled THEN "true" ELSE "false")]

ReconfigureNext ==
    \/ ConfigureDebug
    \/ \E c \in OneAtATime :
          \/ StartReconfigurable(c)
          \/ ConfigureDebugDuringCall(c)
          \/ BeastPostResponse(c)
          \/ PrintdeskPostResponse(c)
          \/ Forget(c)

ReconfigureSpec == Init /\ [][ReconfigureNext]_vars

(***************************************************************************)
(* C32.  A configureDebug call made while a print call is suspended is not *)
(* lost: once that print call has settled, the debug configuration is what *)
(* configureDebug set, whether or not the print call carried an override.  *)
(***************************************************************************)
C32_ConfigureDebugNotLost ==
    \A c \in Slots :
        LET L == call[c]
        IN  L.pc \in Settled
            => \A i \in Events(L, "call", "configureDebug") :
                  debugConfig.enabled = (L.trace[i][3] = "true")

(***************************************************************************)
(* C33.  The rendered template HTML and the per-backend working copies     *)
(* belong to one print call, also when calls overlap and when a call       *)
(* follows another.  A call whose selected backend needs the template      *)
(* issues its own render request, for its own templateId; the memo and     *)
(* rendered HTML in a working copy are there only after the call's own     *)
(* render returned; and the working copies are the call's own request      *)
(* after normalization, with at most its own rendered HTML written in.     *)
(***************************************************************************)
OwnRender(L) ==
    /\ Returned(L, "renderTemplateToHtml")
    /\ RenderRequests(L) # {}

WithRendered(copy, L) ==
    IF Truthy(L.renderedTemplateHtml) THEN [copy EXCEPT !.html = L.renderedTemplateHtml] ELSE copy

C33_RenderScopedToCall ==
    \A c \in Slots :
        LET L == call[c]
        IN  L.pc # "idle"
            => /\ (L.strategy \in {"legacy", "printdesk"} /\ RenderNeeded(L))
                  => RenderRequests(L) # {}
               /\ \A i \in RenderRequests(L) :
                     L.net[i].templateId = L.given.beast.templateId
               /\ L.renderedTemplateHtml # Undef => OwnRender(L)
               /\ (L.legacyOpts.html = RenderedHtml \/ L.printdeskOpts.html = RenderedHtml)
                  => OwnRender(L)
               /\ L.beastOpts = NormalizeBeast(L.given)
               /\ L.legacyOpts \in {NormalizeLegacy(L.given),
                                    WithRendered(NormalizeLegacy(L.given), L)}
               /\ L.printdeskOpts \in {NormalizePrintdesk(L.given),
                                       WithRendered(NormalizePrintdesk(L.given), L)}

C33_Witness ==
    /\ \A c \in Slots :
          /\ OwnRender(call[c])
          /\ call[c].printdeskOpts.html = RenderedHtml
    /\ call[1].given.beast.templateId # call[2].given.beast.templateId

(***************************************************************************)
(* C34.  Routing does not depend on the debug state: two runs of print     *)
(* with the same request apart from the debug override, under different    *)
(* global debug configurations and with the same answers from the          *)
(* backends, call the same backends in the same order, issue the same      *)
(* fetch requests and have the same outcome at every point.                *)
(***************************************************************************)
SameRouting(L1, L2) ==
    /\ L1.pc = L2.pc
    /\ L1.trace = L2.trace
    /\ L1.net = L2.net
    /\ L1.error = L2.error
    /\ L1.legacyPath = L2.legacyPath

Gets(L) == {i \in DOMAIN L.net : L.net[i].method = "GET"}

Posts(L) == {i \in DOMAIN L.net : L.net[i].method = "POST"}

C35_PrintdeskContentResolution ==
    \A c \in Slots :
        LET L == call[c]
            options == L.printdeskOpts
        IN  (DirectCall(L) /\ Called(L, "printdeskPrint"))
            => /\ ~options.present
                  => /\ L.net = <<>>
                     /\ L.pc = "rejected"
                     /\ L.error = ErrNoPrintdeskOptions
               /\ (options.present /\ Truthy(options.html))
                  => /\ Gets(L) = {}
                     /\ Len(L.net) = 1
                     /\ L.net[1].endpoint = LocalUrl(options)
                     /\ L.net[1].content = options.html
               /\ (options.present /\ Lacks(options.html) /\ Truthy(options.url))
                  => /\ Gets(L) = {1}
                     /\ L.net[1].endpoint = options.url
                     /\ Posts(L) \subseteq {2}
                     /\ Posts(L) = {2}
                        => /\ L.net[2].endpoint = LocalUrl(options)
                           /\ L.net[2].content = FetchedHtml
               /\ (options.present /\ Lacks(options.html) /\ Lacks(options.url))
                  => /\ L.net = <<>>
                     /\ L.pc = "rejected"
                     /\ L.error = ErrPrintdeskHtmlOrUrl
               /\ (L.pc = "rejected"
                   /\ L.error \in {ErrPrintdeskFetchUrl, ErrPrintdeskHtmlOrUrl})
                  => Posts(L) = {}

C35_Witness ==
    \E c \in Slots :
        LET L == call[c]
        IN  /\ DirectCall(L)
            /\ Called(L, "printdeskPrint")
            /\ L.printdeskOpts.html = ""
            /\ Truthy(L.printdeskOpts.url)
            /\ Posts(L) = {2}
            /\ L.pc = "resolved"

(***************************************************************************)
(* C36.  legacyPrint in a browser context takes exactly one of the six     *)
(* render paths, never both calls window.open and creates an iframe, and   *)
(* takes the native window.print() path exactly when html and url are both *)
(* absent (or empty).                                                      *)
(***************************************************************************)
RenderPaths ==
    {"window.print", "url popup", "url iframe", "url new tab", "html popup", "html iframe"}

InBrowser(L) == L.env.window /\ L.env.document

C36_OneRenderPath ==
    \A c \in Slots :
        LET L == call[c]
            options == L.legacyOpts
        IN  (DirectLegacyCall(L) /\ InBrowser(L))
            => /\ L.legacyPath \in RenderPaths
               /\ ~(CallsWindowOpen(L.legacyPath) /\ CreatesFrame(L.legacyPath))
               /\ PrintsSynchronously(L.legacyPath)
                  => ~CallsWindowOpen(L.legacyPath) /\ ~CreatesFrame(L.legacyPath)
               /\ L.legacyPath = "window.print"
                  <=> (Lacks(options.html) /\ Lacks(options.url))
               /\ L.legacyPath \in UrlPaths <=> Truthy(options.url)
               /\ L.legacyPath \in HtmlPaths
                  <=> (Truthy(options.html) /\ Lacks(options.url))

C36_Witness ==
    \E c \in Slots :
        LET L == call[c]
        IN  /\ DirectLegacyCall(L)
            /\ InBrowser(L)
            /\ L.legacyOpts.present
            /\ L.legacyOpts.html = ""
            /\ L.legacyOpts.popup = "true"
            /\ L.legacyPath = "window.print"
            /\ L.pc = "resolved"

(***************************************************************************)
(* C37.  Every hidden iframe or popup window a legacyPrint call created is *)
(* eventually torn down once its load event has fired (the iframe removed, *)
(* the popup closed), on the url and the html paths alike.                 *)
(***************************************************************************)
LoadFired(L) == L.onload \notin {"none", "pending"}

C37_ElementsTornDownAfterLoad ==
    \A c \in Slots : LoadFired(call[c]) ~> call[c].teardown = "done"

====
